---- MODULE Spec2Model ----
(***************************************************************************)
(* State-machine model of the anime-portfolio front end:                   *)
(*   - BulletTimeScene  (src/src/app/components/BulletTimeScene.tsx)       *)
(*   - ParticleScene    (src/src/app/components/ParticleScene.tsx)         *)
(*   - the host page    (src/unnamed/part_001)                             *)
(*   - ExperiencePage   (src/unnamed/part_000)                             *)
(* Times are integer milliseconds.  Positions are fixed-point integers.    *)
(***************************************************************************)
EXTENDS Integers, Sequences, FiniteSets, TLC

VARIABLES
    now,            \* performance.now() / Date.now(), ms
    lastRefresh,    \* time of the last display refresh that ran frame callbacks
    \* ---- BulletTimeScene ----
    bMounted,       \* the component instance is mounted
    active,         \* the `active` prop as last seen by useEffect[active]
    delayRef,       \* delayRef.current: Null or the deadline of the start-delay timer
    sceneRef,       \* sceneRef.current: "null" or "scene"
    st,             \* the state object built by the timer callback (fields of sceneRef.current)
    bullets,        \* bullets[i]: mesh position, started, spin, trail ghosts
    rafScheduled,   \* requestAnimationFrame callbacks not yet run or cancelled
    listeners,      \* scenes (by generation) whose resize handler is registered on window
    canvases,       \* scenes whose renderer.domElement is a child of the container
    gpuLive,        \* scenes whose texture/geometries/materials/renderer are not disposed
    containerRef,   \* containerRef.current is the overlay div (TRUE) or null (FALSE)
    viewport,       \* window.innerWidth/innerHeight class applied to camera + renderer
    bLast,          \* what the last BulletTimeScene step did (observation only)
    onCompleteCalls,\* invocations of the onComplete prop so far
    \* ---- ParticleScene ----
    pMounted,           \* the component instance is mounted
    props,              \* currentSection, selectedExperience, selectedSocial as last rendered
    currentSectionRef,  \* currentSectionRef.current
    previousSectionRef, \* previousSectionRef.current
    selectedExperienceRef,
    currentPositions,   \* CURRENT: currentPositionsRef.current, thousandths
    targetPositions,    \* TARGET: targetPositionsRef.current, thousandths
    positions,          \* the geometry's position attribute (what is rendered)
    camera,             \* cameraRef.current.position, thousandths
    cameraIntervals,    \* live setInterval(animateCamera, 16) timers
    cameraTimeouts,     \* pending setTimeout(clearInterval, 2000) timers
    fallTimers,         \* pending setTimeout(..., 1200) fall-to-text timers
    terrainOffset,      \* terrainOffsetRef.current, thousandths
    rotationY,          \* rotationRef.current.y, thousandths of a radian
    rotation,           \* particlesRef.current.rotation
    pointSize,          \* material.size, thousandths
    frameRef,           \* a frame callback of the particle loop is scheduled
    pResources,         \* what the init effect created and has not released
    pContainerRef,      \* containerRef.current is the host div
    effectRuns,         \* number of runs of the section effect (names its timers)
    renders,            \* render calls of the last frame
    pLast,              \* what the last ParticleScene step did (observation only)
    \* ---- host page (section changer) ----
    hSectionRef,        \* currentSectionRef.current of the page
    hCurrentSection,    \* the currentSection state
    hSelectedExperience,\* the selectedExperience state
    hTransitioning,     \* the isTransitioning state
    isScrolling,        \* isScrolling.current
    lockStartTime,      \* lockStartTime.current
    hTimers,            \* pending setTimeout callbacks of the page
    hLast,              \* what the last step of the page did (observation only)
    hDir,               \* direction of the last wheel or touch request (observation only)
    lastWheel,          \* Date.now() of the latest applied wheel request (history)
    lastGesture,        \* Date.now() of the latest applied wheel or touch request (history)
    lastTouch,          \* Date.now() of the latest applied touch request (history)
    hDropped,           \* a wheel request has been dropped by the cooldown (history)
    \* ---- generateAllSocialLogos ----
    logoN,              \* PARTICLE_COUNT seen by the generator
    logoIdx,            \* logoIdx of the outer loop; 5 once the loop has ended
    logoI,              \* i of the inner loop
    logoWrites,         \* logoWrites[i]: how many times particle i has been written
    logoBlock,          \* logoBlock[i]: the logo whose block wrote particle i last
    logoSrcOk,          \* every srcIdx read so far was inside the sub-generator's output
    \* ---- ExperiencePage (src/unnamed/part_000) ----
    eMounted,           \* the page is mounted
    paramsId,           \* params.id, the string of the route segment
    currentIdx,         \* state currentIdx
    displayIdx,         \* state displayIdx: the entry that is rendered
    fadeIn,             \* state fadeIn
    slideDirection,     \* state slideDirection
    isTransitioning,    \* state isTransitioning
    transitionTimeout,  \* transitionTimeout.current: a timer record or NoTimer
    eTimers,            \* pending setTimeout callbacks of the page
    eReq,               \* the latest accepted prev/next request (history)
    eLast               \* label of the last step of the page (observation only)

bvars == <<bMounted, active, delayRef, sceneRef, st, bullets, rafScheduled,
           listeners, canvases, gpuLive, containerRef, viewport, bLast,
           onCompleteCalls>>

pvars == <<pMounted, props, currentSectionRef, previousSectionRef, selectedExperienceRef,
           currentPositions, targetPositions, positions, camera, cameraIntervals,
           cameraTimeouts, fallTimers, terrainOffset, rotationY, rotation, pointSize,
           frameRef, pResources, pContainerRef, effectRuns, renders, pLast>>

hvars == <<hSectionRef, hCurrentSection, hSelectedExperience, hTransitioning,
           isScrolling, lockStartTime, hTimers, hLast, hDir, lastWheel, lastGesture, lastTouch,
           hDropped>>

lvars == <<logoN, logoIdx, logoI, logoWrites, logoBlock, logoSrcOk>>

evars == <<eMounted, paramsId, currentIdx, displayIdx, fadeIn, slideDirection,
           isTransitioning, transitionTimeout, eTimers, eReq, eLast>>

Null == -1

\* ---------------------------------------------------------------------------
\* Bounds of the model
\* ---------------------------------------------------------------------------
MaxTicks == 11                  \* the clock stops after this many steps
MaxScenes == 2                  \* scenes built per component instance
BulletDts == {300}              \* gaps between successive events, ms
MaxNow == MaxTicks * 300
MaxFineTicks == 6               \* 50 ms steps taken while the bullets launch
FineDts == {50}
Viewports == {"wide", "tall"}

\* ---------------------------------------------------------------------------
\* BulletTimeScene constants
\* ---------------------------------------------------------------------------
ANIM_DURATION == 1500           \* 1.5 s
START_DELAY == 900
FLY_OUT_DURATION == 600         \* 0.6 s
SPIN_SPEED2 == 3                \* 2 * SPIN_SPEED; spin is kept in 1/2000 rad
EaseScale == 1000               \* bulletEase values are kept in thousandths
BulletIds == 1..5

\* trajectoryDefs[i].delay, in thousandths
DelayMilli == <<0, 60, 40, 90, 100>>

\* b.delay * ANIM_DURATION, ms
DelayMs(i) == (DelayMilli[i] * ANIM_DURATION) \div 1000

\* ANIM_DURATION * (1 - b.delay), ms
EffectiveDur(i) == (ANIM_DURATION * (1000 - DelayMilli[i])) \div 1000

Min(a, b) == IF a < b THEN a ELSE b

\* 1 - (1 - t)^12 with t in thousandths; each product is rounded down to a
\* thousandth, the way the floating-point power saturates to 1 near t = 1.
bulletEase(t) ==
    LET q  == EaseScale - t
        q2 == (q * q) \div EaseScale
        q4 == (q2 * q2) \div EaseScale
        q8 == (q4 * q4) \div EaseScale
        q12 == (q8 * q4) \div EaseScale
    IN  EaseScale - q12

\* A bullet as built by trajectoryDefs.map: mesh at start, 12 ghosts hidden at
\* the origin of the scene, started = false.  The mesh position is
\*   start + (lerp/EaseScale) * (end - start) + (out/1000) * dir
\* (dir is parallel to end - start, so the two scalars determine it).
\* The 12 ghosts of a bullet are always written together by updateTrails, at
\* fixed offsets behind one anchor: tPlaced says whether updateTrails has run,
\* (tLerp, tOut) is the mesh position they were placed behind.
NewBullet == [lerp |-> 0, out |-> 0, started |-> FALSE, spin |-> 0,
              tPlaced |-> FALSE, tLerp |-> 0, tOut |-> 0, tVisible |-> FALSE]

NewState(g) == [gen |-> g, startTime |-> now, animationId |-> 0,
                disposed |-> FALSE, frozen |-> FALSE, flyingOut |-> FALSE,
                flyOutStart |-> 0, lastTimestamp |-> now]

\* An updateTrails that shows every ghost it places
updateTrailsShown(b) == [b EXCEPT !.tPlaced = TRUE, !.tLerp = b.lerp, !.tOut = b.out,
                                  !.tVisible = TRUE]

updateTrails(b) == [b EXCEPT !.tPlaced = TRUE, !.tLerp = b.lerp, !.tOut = b.out,
                             !.tVisible = b.started]

\* requestAnimationFrame returns an id never seen before
FreshId(pending) ==
    CHOOSE n \in 1..(Cardinality(pending) + 2) :
        /\ n # st.animationId
        /\ \A cb \in pending : cb.id # n

\* ---------------------------------------------------------------------------
\* BulletTimeScene operations
\* ---------------------------------------------------------------------------

\* cleanup() without window.removeEventListener
CleanupKeepsListener(rafBase, delayAfter, container) ==
    /\ delayRef' = delayAfter
    /\ onCompleteCalls' = onCompleteCalls
    /\ IF sceneRef = "null"
       THEN /\ rafScheduled' = rafBase
            /\ UNCHANGED <<sceneRef, st, listeners, canvases, gpuLive>>
       ELSE /\ st' = [st EXCEPT !.disposed = TRUE]
            /\ rafScheduled' = {cb \in rafBase : cb.id # st.animationId}
            /\ listeners' = listeners
            /\ gpuLive' = gpuLive \ {st.gen}
            /\ canvases' = IF container THEN canvases \ {st.gen} ELSE canvases
            /\ sceneRef' = "null"

\* A cleanup() that reports the end of a scene through onComplete
CleanupCompletes(rafBase, delayAfter, container) ==
    /\ delayRef' = delayAfter
    /\ IF sceneRef = "null"
       THEN /\ rafScheduled' = rafBase
            /\ UNCHANGED <<sceneRef, st, listeners, canvases, gpuLive, onCompleteCalls>>
       ELSE /\ st' = [st EXCEPT !.disposed = TRUE]
            /\ rafScheduled' = {cb \in rafBase : cb.id # st.animationId}
            /\ listeners' = listeners \ {st.gen}
            /\ gpuLive' = gpuLive \ {st.gen}
            /\ canvases' = IF container THEN canvases \ {st.gen} ELSE canvases
            /\ sceneRef' = "null"
            /\ onCompleteCalls' = onCompleteCalls + 1

\* cleanup(): clears the start-delay timer, then tears the scene down if one
\* exists.  rafBase is the set of pending frame callbacks at the call,
\* delayAfter is what the caller leaves in delayRef after cleanup returned,
\* container is containerRef.current at the call.
Cleanup(rafBase, delayAfter, container) ==
    /\ delayRef' = delayAfter
    /\ onCompleteCalls' = onCompleteCalls
    /\ IF sceneRef = "null"
       THEN /\ rafScheduled' = rafBase
            /\ UNCHANGED <<sceneRef, st, listeners, canvases, gpuLive>>
       ELSE /\ st' = [st EXCEPT !.disposed = TRUE]
            /\ rafScheduled' = {cb \in rafBase : cb.id # st.animationId}
            /\ listeners' = listeners \ {st.gen}
            /\ gpuLive' = gpuLive \ {st.gen}
            /\ canvases' = IF container THEN canvases \ {st.gen} ELSE canvases
            /\ sceneRef' = "null"

\* Deactivation that leaves a pending start-delay timer running
DeactivateKeepsTimer ==
    /\ bMounted /\ active
    /\ active' = FALSE
    /\ delayRef' = delayRef
    /\ IF sceneRef # "null" /\ ~st.disposed /\ ~st.flyingOut
       THEN /\ st' = [st EXCEPT !.flyingOut = TRUE, !.flyOutStart = now, !.frozen = FALSE]
            /\ bLast' = IF st.frozen THEN "flyOutFromFrozen" ELSE "flyOutFromShootIn"
       ELSE /\ st' = st
            /\ bLast' = IF delayRef # Null THEN "cancelDelay" ELSE "deactivate"
    /\ UNCHANGED <<now, lastRefresh, bMounted, sceneRef, bullets, rafScheduled,
                   listeners, canvases, gpuLive, containerRef, viewport>>
    /\ UNCHANGED onCompleteCalls
    /\ UNCHANGED <<pvars, hvars, lvars, evars>>

\* Deactivation that starts the fly-out but leaves the frozen flag set
DeactivateKeepsFrozen ==
    /\ bMounted /\ active
    /\ active' = FALSE
    /\ delayRef' = Null
    /\ IF sceneRef # "null" /\ ~st.disposed /\ ~st.flyingOut
       THEN /\ st' = [st EXCEPT !.flyingOut = TRUE, !.flyOutStart = now]
            /\ bLast' = IF st.frozen THEN "flyOutFromFrozen" ELSE "flyOutFromShootIn"
       ELSE /\ st' = st
            /\ bLast' = IF delayRef # Null THEN "cancelDelay" ELSE "deactivate"
    /\ UNCHANGED <<now, lastRefresh, bMounted, sceneRef, bullets, rafScheduled,
                   listeners, canvases, gpuLive, containerRef, viewport>>
    /\ UNCHANGED onCompleteCalls
    /\ UNCHANGED <<pvars, hvars, lvars, evars>>

\* useEffect[active], `active` became false: the cleanup returned by the
\* previous (active) run clears the timer, then the inactive branch runs.
Deactivate ==
    /\ bMounted /\ active
    /\ active' = FALSE
    /\ delayRef' = Null
    /\ IF sceneRef # "null" /\ ~st.disposed /\ ~st.flyingOut
       THEN /\ st' = [st EXCEPT !.flyingOut = TRUE, !.flyOutStart = now, !.frozen = FALSE]
            /\ bLast' = IF st.frozen THEN "flyOutFromFrozen" ELSE "flyOutFromShootIn"
       ELSE /\ st' = st
            /\ bLast' = IF delayRef # Null THEN "cancelDelay" ELSE "deactivate"
    /\ UNCHANGED <<now, lastRefresh, bMounted, sceneRef, bullets, rafScheduled,
                   listeners, canvases, gpuLive, containerRef, viewport>>
    /\ UNCHANGED onCompleteCalls
    /\ UNCHANGED <<pvars, hvars, lvars, evars>>

\* An activation that sets the timer without calling cleanup() first
ActivateSkipsCleanup ==
    /\ bMounted /\ ~active
    /\ st.gen < MaxScenes
    /\ active' = TRUE
    /\ delayRef' = IF containerRef THEN now + START_DELAY ELSE Null
    /\ bLast' = IF sceneRef # "null" THEN "reactivate" ELSE "activate"
    /\ UNCHANGED <<now, lastRefresh, bMounted, bullets, containerRef, viewport, sceneRef,
                   st, rafScheduled, listeners, canvases, gpuLive, onCompleteCalls>>
    /\ UNCHANGED <<pvars, hvars, lvars, evars>>

\* useEffect[active], `active` became true: cleanup(), then the start-delay
\* timer is set (the previous, inactive run returned no cleanup function).
Activate ==
    /\ bMounted /\ ~active
    /\ st.gen < MaxScenes
    /\ active' = TRUE
    /\ IF containerRef
       THEN Cleanup(rafScheduled, now + START_DELAY, TRUE)
       ELSE Cleanup(rafScheduled, Null, FALSE)
    /\ bLast' = IF sceneRef # "null" THEN "reactivate" ELSE "activate"
    /\ UNCHANGED <<now, lastRefresh, bMounted, bullets, containerRef, viewport>>
    /\ UNCHANGED <<pvars, hvars, lvars, evars>>

\* A timer callback that builds the scene around the bullets left behind
TimerFireResumes ==
    /\ delayRef # Null /\ now >= delayRef
    /\ delayRef' = Null
    /\ IF sceneRef # "null"
       THEN /\ bLast' = "timerNoop"
            /\ UNCHANGED <<sceneRef, st, bullets, rafScheduled, listeners, canvases, gpuLive>>
       ELSE LET g == st.gen + 1
                id == FreshId(rafScheduled)
            IN  /\ sceneRef' = "scene"
                /\ st' = [NewState(g) EXCEPT !.animationId = id]
                /\ bullets' = bullets
                /\ rafScheduled' = rafScheduled \cup {[id |-> id, gen |-> g]}
                /\ listeners' = listeners \cup {g}
                /\ canvases' = canvases \cup {g}
                /\ gpuLive' = gpuLive \cup {g}
                /\ bLast' = "build"
    /\ UNCHANGED <<now, lastRefresh, bMounted, active, containerRef, viewport>>
    /\ UNCHANGED onCompleteCalls
    /\ UNCHANGED <<pvars, hvars, lvars, evars>>

\* The setTimeout(..., START_DELAY) callback: builds the scene.
TimerFire ==
    /\ delayRef # Null /\ now >= delayRef
    /\ delayRef' = Null
    /\ IF sceneRef # "null"
       THEN /\ bLast' = "timerNoop"
            /\ UNCHANGED <<sceneRef, st, bullets, rafScheduled, listeners, canvases, gpuLive>>
       ELSE LET g == st.gen + 1
                id == FreshId(rafScheduled)
            IN  /\ sceneRef' = "scene"
                /\ st' = [NewState(g) EXCEPT !.animationId = id]
                /\ bullets' = [i \in BulletIds |-> NewBullet]
                /\ rafScheduled' = rafScheduled \cup {[id |-> id, gen |-> g]}
                /\ listeners' = listeners \cup {g}
                /\ canvases' = canvases \cup {g}
                /\ gpuLive' = gpuLive \cup {g}
                /\ bLast' = "build"
    /\ UNCHANGED <<now, lastRefresh, bMounted, active, containerRef, viewport>>
    /\ UNCHANGED onCompleteCalls
    /\ UNCHANGED <<pvars, hvars, lvars, evars>>

\* speed * dt of the fly-out, in thousandths: 40 * (fe/0.6)^2 * dt
FlyOutStep(fe, dt) == (fe * fe * dt) \div 9000

\* One bullet in a fly-out frame
FlyOutBullet(b, fe, dt) ==
    updateTrails([b EXCEPT !.out = b.out + FlyOutStep(fe, dt),
                           !.spin = b.spin + SPIN_SPEED2 * 3 * dt])

\* A frozen frame that keeps pushing the bullet along its direction
FrozenDrifts(b, dt) == [b EXCEPT !.spin = b.spin + SPIN_SPEED2 * dt, !.out = b.out + dt]

\* One bullet in a frozen frame
FrozenBullet(b, dt) == [b EXCEPT !.spin = b.spin + SPIN_SPEED2 * dt]

\* A shoot-in step that launches every bullet with the global clock
ShootInNoDelay(i, b, elapsed, dt) ==
    updateTrails([b EXCEPT !.started = TRUE,
                           !.lerp = bulletEase(Min((elapsed * EaseScale) \div ANIM_DURATION,
                                                   EaseScale)),
                           !.out = 0, !.spin = b.spin + SPIN_SPEED2 * dt])

\* One bullet in a shoot-in frame
ShootInBullet(i, b, elapsed, dt) ==
    LET bulletElapsed == elapsed - DelayMs(i)
        bp == Min((bulletElapsed * EaseScale) \div EffectiveDur(i), EaseScale)
    IN  IF bulletElapsed < 0
        THEN b
        ELSE updateTrails([b EXCEPT !.started = TRUE, !.lerp = bulletEase(bp),
                                    !.out = 0, !.spin = b.spin + SPIN_SPEED2 * dt])

\* One bullet in the frame that finds globalProgress >= 1
FreezeBullet(b) == updateTrails(b)

\* animate(): the frame callback cb of the scene of generation cb.gen
Animate(cb) ==
    /\ cb \in rafScheduled
    /\ now > lastRefresh
    /\ lastRefresh' = now
    /\ LET rest == rafScheduled \ {cb}
           dt == now - st.lastTimestamp
           fe == now - st.flyOutStart
           elapsed == now - st.startTime
           id == FreshId(rest)
           again == rest \cup {[id |-> id, gen |-> cb.gen]}
       IN  IF cb.gen # st.gen \/ st.disposed
           THEN /\ rafScheduled' = rest
                /\ bLast' = "stale"
                /\ UNCHANGED <<delayRef, sceneRef, st, bullets, listeners, canvases, gpuLive,
                               onCompleteCalls>>
           ELSE IF st.flyingOut /\ fe >= FLY_OUT_DURATION
           THEN /\ Cleanup(rest, Null, containerRef)
                /\ bLast' = "cleanup"
                /\ UNCHANGED bullets
           ELSE /\ rafScheduled' = again
                /\ UNCHANGED <<delayRef, sceneRef, listeners, canvases, gpuLive,
                               onCompleteCalls>>
                /\ IF st.flyingOut
                   THEN /\ st' = [st EXCEPT !.lastTimestamp = now, !.animationId = id]
                        /\ bullets' = [i \in BulletIds |-> FlyOutBullet(bullets[i], fe, dt)]
                        /\ bLast' = "flyOut"
                   ELSE IF st.frozen
                   THEN /\ st' = [st EXCEPT !.lastTimestamp = now, !.animationId = id]
                        /\ bullets' = [i \in BulletIds |-> FrozenBullet(bullets[i], dt)]
                        /\ bLast' = "frozen"
                   ELSE IF elapsed >= ANIM_DURATION
                   THEN /\ st' = [st EXCEPT !.lastTimestamp = now, !.animationId = id,
                                            !.frozen = TRUE]
                        /\ bullets' = [i \in BulletIds |-> FreezeBullet(bullets[i])]
                        /\ bLast' = "freeze"
                   ELSE /\ st' = [st EXCEPT !.lastTimestamp = now, !.animationId = id]
                        /\ bullets' = [i \in BulletIds |->
                                          ShootInBullet(i, bullets[i], elapsed, dt)]
                        /\ bLast' = "shootIn"
    /\ UNCHANGED <<now, bMounted, active, containerRef, viewport>>
    /\ UNCHANGED <<pvars, hvars, lvars, evars>>

\* handleResize of the scene of generation g
Resize(g, v) ==
    /\ g \in listeners
    /\ v # viewport
    /\ IF g # st.gen \/ st.disposed
       THEN /\ bLast' = "resizeNoop" /\ UNCHANGED viewport
       ELSE /\ bLast' = "resize" /\ viewport' = v
    /\ UNCHANGED <<now, lastRefresh, bMounted, active, delayRef, sceneRef, st, bullets,
                   rafScheduled, listeners, canvases, gpuLive, containerRef>>
    /\ UNCHANGED onCompleteCalls
    /\ UNCHANGED <<pvars, hvars, lvars, evars>>

\* An unmount that only clears the start-delay timer
UnmountKeepsScene ==
    /\ bMounted
    /\ bMounted' = FALSE
    /\ containerRef' = FALSE
    /\ delayRef' = Null
    /\ bLast' = "unmount"
    /\ UNCHANGED <<now, lastRefresh, active, bullets, viewport, sceneRef, st,
                   rafScheduled, listeners, canvases, gpuLive>>
    /\ UNCHANGED onCompleteCalls
    /\ UNCHANGED <<pvars, hvars, lvars, evars>>

\* Unmount: the ref to the overlay div is detached, then the effect cleanups
\* run (the timer cleanup of useEffect[active], then cleanup()).
Unmount ==
    /\ bMounted
    /\ bMounted' = FALSE
    /\ containerRef' = FALSE
    /\ Cleanup(rafScheduled, Null, FALSE)
    /\ bLast' = "unmount"
    /\ UNCHANGED <<now, lastRefresh, active, bullets, viewport>>
    /\ UNCHANGED <<pvars, hvars, lvars, evars>>

\* performance.now() read 50 ms later, while the bullets launch
BFineTick(dt) ==
    /\ dt \in FineDts
    /\ now + dt <= START_DELAY + MaxFineTicks * 50
    /\ delayRef # Null \/ sceneRef # "null" \/ rafScheduled # {} \/ listeners # {}
    /\ now' = now + dt
    /\ bLast' = "tick"
    /\ UNCHANGED <<lastRefresh, bMounted, active, delayRef, sceneRef, st, bullets,
                   rafScheduled, listeners, canvases, gpuLive, containerRef, viewport>>
    /\ UNCHANGED onCompleteCalls
    /\ UNCHANGED <<pvars, hvars, lvars, evars>>

\* Time passes while a timer, a scene, a frame callback or a listener exists
\* (an idle overlay reads no clock)
BTick(dt) ==
    /\ dt \in BulletDts
    /\ now + dt <= MaxNow
    /\ delayRef # Null \/ sceneRef # "null" \/ rafScheduled # {} \/ listeners # {}
    /\ now' = now + dt
    /\ bLast' = "tick"
    /\ UNCHANGED <<lastRefresh, bMounted, active, delayRef, sceneRef, st, bullets,
                   rafScheduled, listeners, canvases, gpuLive, containerRef, viewport>>
    /\ UNCHANGED onCompleteCalls
    /\ UNCHANGED <<pvars, hvars, lvars, evars>>

\* ===========================================================================
\* ParticleScene
\* ===========================================================================

\* Bounds of the particle model
PARTICLE_COUNT == 3             \* particles per cloud (16000 in the source)
MaxEffectRuns == 3              \* runs of the section effect, the mount run included
MaxHeroRuns == 5                \* the same, when only sections 0 and 1 are visited
MaxPTicks == 2                  \* clock steps
ParticleDts == {1000}            \* gaps between successive events, ms
Sections == 0..5                \* values of the currentSection prop
ExpInputs == {-1, 2, 5}         \* values the selectedExperience prop is changed to
SocialInputs == {0}             \* values of the selectedSocial prop
MaxPNow == MaxPTicks * 1000

FALL_DELAY == 1200              \* setTimeout(..., 1200)
CAMERA_EASE_MS == 2000          \* setTimeout(() => clearInterval(...), 2000)
TERRAIN_BOUNDS == 25000         \* terrainBounds = 25
TERRAIN_STEP == 25              \* terrainOffsetRef.current += 0.025

Coords == 0..(3 * PARTICLE_COUNT - 1)
Particles == 0..(PARTICLE_COUNT - 1)

\* Math.ceil(Math.sqrt(n))
CeilSqrt(n) == CHOOSE r \in 0..n : r * r >= n /\ (r = 0 \/ (r - 1) * (r - 1) < n)

\* Math.ceil(a / b)
CeilDiv(a, b) == (a + b - 1) \div b

gridSizeX == CeilSqrt(PARTICLE_COUNT)
gridSizeZ == CeilDiv(PARTICLE_COUNT, gridSizeX)

\* Heights of the terrain: -3 + hills * 0.6 is a sum of sines that stays in
\* (-6.2, 0.2); one representative height per particle.
MountainY(i) == -3000 - ((i * 37) % 31) * 100

\* generateMountainPositions(): x and z are the grid coordinates of the source,
\* x = (gridX / gridSizeX - 0.5) * 55, z = (gridZ / gridSizeZ - 0.5) * 50
mountains ==
    [k \in Coords |->
        LET i == k \div 3
            gridX == i % gridSizeX
            gridZ == i \div gridSizeX
        IN  CASE k % 3 = 0 -> (gridX * 55000) \div gridSizeX - 27500
              [] k % 3 = 1 -> MountainY(i)
              [] OTHER     -> (gridZ * 50000) \div gridSizeZ - 25000]

\* The other generators are trigonometric or random; each shape is a fixed
\* array of 3 * PARTICLE_COUNT coordinates, different from shape to shape.
GeneratedShape(tag) == [k \in Coords |-> ((tag * 977 + k * 131) % 6001) - 3000]

textPositions == GeneratedShape(1)      \* textPositionsRef.current
sphere == GeneratedShape(2)
spaceship == GeneratedShape(3)
satellite == GeneratedShape(4)
expShapes == [e \in 0..4 |-> GeneratedShape(10 + e)]

\* expPositions
expPositions == [e \in 0..4 |->
    CASE e = 0 -> [x |-> 3500, y |-> 300, z |-> 8000]
      [] e = 1 -> [x |-> 3500, y |-> 0, z |-> 8000]
      [] e = 2 -> [x |-> 3700, y |-> 0, z |-> 9000]
      [] e = 3 -> [x |-> 3000, y |-> 0, z |-> 8000]
      [] OTHER -> [x |-> 3500, y |-> 0, z |-> 8000]]

\* A fallback to the last entry instead of the first
OrLast(e) == IF e \in 0..4 THEN e ELSE 4

\* arr[selectedExperience] || arr[0]
OrFirst(e) == IF e \in 0..4 THEN e ELSE 0

\* newPositions of the switch
NewPositions(s, e) ==
    CASE s = 0 -> textPositions
      [] s = 1 -> mountains
      [] s = 2 -> sphere
      [] s = 3 -> spaceship
      [] s = 4 -> satellite
      [] s = 5 -> expShapes[OrFirst(e)]
      [] OTHER -> mountains

\* The poses of sections 2 and 4 exchanged
CameraTargetSwapped(s, e) ==
    CASE s = 0 -> [x |-> 0, y |-> 0, z |-> 20000]
      [] s = 1 -> [x |-> 0, y |-> 5000, z |-> 18000]
      [] s = 2 -> [x |-> 0, y |-> 0, z |-> 12000]
      [] s = 3 -> [x |-> -8000, y |-> 1000, z |-> 18000]
      [] s = 4 -> [x |-> 0, y |-> 0, z |-> 10000]
      [] s = 5 -> expPositions[OrFirst(e)]
      [] OTHER -> [x |-> 0, y |-> 0, z |-> 12000]

\* cameraX, cameraY, cameraZ of the switch
CameraTarget(s, e) ==
    CASE s = 0 -> [x |-> 0, y |-> 0, z |-> 20000]
      [] s = 1 -> [x |-> 0, y |-> 5000, z |-> 18000]
      [] s = 2 -> [x |-> 0, y |-> 0, z |-> 10000]
      [] s = 3 -> [x |-> -8000, y |-> 1000, z |-> 18000]
      [] s = 4 -> [x |-> 0, y |-> 0, z |-> 12000]
      [] s = 5 -> expPositions[OrFirst(e)]
      [] OTHER -> [x |-> 0, y |-> 0, z |-> 12000]

\* material.size
PointSize(s) ==
    IF s = 5 THEN 40 ELSE IF s = 4 THEN 45 ELSE IF s = 2 THEN 50
    ELSE IF s = 0 THEN 120 ELSE 80

\* Math.floor(seededRandom(i * 99.7) * 10) for i = 0, 1, 2, ...
GroupTable == <<0, 7, 4, 2, 9, 8, 4, 3, 8, 9, 2, 5>>
Group(i) == GroupTable[(i % 12) + 1]

\* -12 - groupDelay, groupDelay = group * 4
GroupDepth(i) == -12000 - Group(i) * 4000

\* Fall targets with one entry per particle instead of three
FallPositionsPerParticle(cur) == [i \in Particles |-> GroupDepth(i)]

\* fallPositions: x and z of CURRENT, staggered depth
FallPositions(cur) ==
    [k \in Coords |-> IF k % 3 = 1 THEN GroupDepth(k \div 3) ELSE cur[k]]

\* A rise that starts from the terrain itself
RiseFromTerrain == mountains

\* CURRENT pre-seeded for the rise: x and z of the mountains, staggered depth
RisePositions ==
    [k \in Coords |-> IF k % 3 = 1 THEN GroupDepth(k \div 3) ELSE mountains[k]]

\* The step truncated instead of rounded to the nearest stored value
EaseTruncated(c, t, pct) == c + (((t - c) * pct) \div 100)

\* c + (t - c) * pct / 100, rounded to the nearest thousandth
\* (Float32Array / double arithmetic rounds to the nearest representable value)
EaseToward(c, t, pct) == c + (((t - c) * pct + 50) \div 100)

\* while (newZ > terrainBounds) newZ -= terrainBounds * 2
RECURSIVE WrapZ(_)
WrapZ(z) == IF z > TERRAIN_BOUNDS THEN WrapZ(z - TERRAIN_BOUNDS * 2) ELSE z

\* A rendered z that is the eased CURRENT z
TerrainZEased(baseZ, offset, easedZ) == easedZ

\* A rendered z that is wrapped at most once
TerrainZWrappedOnce(baseZ, offset, easedZ) ==
    IF baseZ + offset > TERRAIN_BOUNDS THEN baseZ + offset - TERRAIN_BOUNDS * 2
    ELSE baseZ + offset

\* positions[i * 3 + 2] of the terrain branch: newZ = baseZ + offset, wrapped;
\* it replaces the eased CURRENT z (easedZ) that the easing loop had stored
TerrainZ(baseZ, offset, easedZ) == WrapZ(baseZ + offset)

\* A cleanup that leaves the interval running
KeepInterval(ivs, run) == ivs

\* The cleanup returned by run `run` of the section effect: clearInterval
ClearInterval(ivs, run) == {iv \in ivs : iv.id # run}

\* The cleanup returned by run `run` of the section effect: clearTimeout
ClearTimeout(ts, run) == {t \in ts : t.id # run}

\* The section effect (useEffect[currentSection, selectedExperience,
\* selectedSocial]): cleanup of the previous run, then the body.
SetProps(s, e, so) ==
    /\ pMounted
    /\ props # [section |-> s, experience |-> e, social |-> so]
    /\ LET prevSection == currentSectionRef
           run == effectRuns + 1
           fall == s = 0 /\ prevSection = 1
           rise == s = 1 /\ prevSection = 0
           keptIntervals == ClearInterval(cameraIntervals, effectRuns)
           keptTimeouts == ClearTimeout(cameraTimeouts, effectRuns)
       IN  /\ props' = [section |-> s, experience |-> e, social |-> so]
           /\ effectRuns' = run
           /\ previousSectionRef' = prevSection
           /\ currentSectionRef' = s
           /\ selectedExperienceRef' = e
           /\ targetPositions' = IF fall THEN FallPositions(currentPositions)
                                 ELSE NewPositions(s, e)
           /\ fallTimers' = IF fall
                            THEN fallTimers \cup {[id |-> run, deadline |-> now + FALL_DELAY]}
                            ELSE fallTimers
           /\ currentPositions' = IF rise THEN RisePositions ELSE currentPositions
           /\ pointSize' = PointSize(s)
           /\ IF s = 5
              THEN /\ camera' = CameraTarget(s, e)
                   /\ cameraIntervals' = keptIntervals
                   /\ cameraTimeouts' = keptTimeouts
              ELSE /\ camera' = camera
                   /\ cameraIntervals' = keptIntervals \cup
                         {[id |-> run, target |-> CameraTarget(s, e), last |-> now]}
                   /\ cameraTimeouts' = keptTimeouts \cup
                         {[id |-> run, deadline |-> now + CAMERA_EASE_MS]}
           /\ pLast' = IF fall THEN "fall" ELSE IF rise THEN "rise" ELSE "section"
    /\ UNCHANGED <<now, lastRefresh, pMounted, positions, terrainOffset, rotationY,
                   rotation, frameRef, pResources, pContainerRef, renders>>
    /\ UNCHANGED <<bvars, hvars, lvars, evars>>

\* A fall callback that does not look at the section it fires in
FallTimerFireUnguarded(t) ==
    /\ t \in fallTimers
    /\ now >= t.deadline
    /\ fallTimers' = fallTimers \ {t}
    /\ targetPositions' = textPositions
    /\ pLast' = IF currentSectionRef = 0 THEN "fallToText" ELSE "fallSkipped"
    /\ UNCHANGED <<now, lastRefresh, pMounted, props, currentSectionRef, previousSectionRef,
                   selectedExperienceRef, currentPositions, positions, camera,
                   cameraIntervals, cameraTimeouts, terrainOffset, rotationY, rotation,
                   pointSize, frameRef, pResources, pContainerRef, effectRuns, renders>>
    /\ UNCHANGED <<bvars, hvars, lvars, evars>>

\* The delayed callback of the fall: switch TARGET to the text
FallTimerFire(t) ==
    /\ t \in fallTimers
    /\ now >= t.deadline
    /\ fallTimers' = fallTimers \ {t}
    /\ IF currentSectionRef = 0
       THEN /\ targetPositions' = textPositions
            /\ pLast' = "fallToText"
       ELSE /\ targetPositions' = targetPositions
            /\ pLast' = "fallSkipped"
    /\ UNCHANGED <<now, lastRefresh, pMounted, props, currentSectionRef, previousSectionRef,
                   selectedExperienceRef, currentPositions, positions, camera,
                   cameraIntervals, cameraTimeouts, terrainOffset, rotationY, rotation,
                   pointSize, frameRef, pResources, pContainerRef, effectRuns, renders>>
    /\ UNCHANGED <<bvars, hvars, lvars, evars>>

\* animateCamera, one firing of the 16 ms interval iv
CameraTick(iv) ==
    /\ iv \in cameraIntervals
    /\ now > iv.last
    /\ camera' = [x |-> EaseToward(camera.x, iv.target.x, 5),
                  y |-> EaseToward(camera.y, iv.target.y, 5),
                  z |-> EaseToward(camera.z, iv.target.z, 5)]
    /\ cameraIntervals' = (cameraIntervals \ {iv}) \cup {[iv EXCEPT !.last = now]}
    /\ pLast' = "cameraTick"
    /\ UNCHANGED <<now, lastRefresh, pMounted, props, currentSectionRef, previousSectionRef,
                   selectedExperienceRef, currentPositions, targetPositions, positions,
                   cameraTimeouts, fallTimers, terrainOffset, rotationY, rotation,
                   pointSize, frameRef, pResources, pContainerRef, effectRuns, renders>>
    /\ UNCHANGED <<bvars, hvars, lvars, evars>>

\* A 2000 ms timer that fires without stopping its interval
CameraTimeoutFireKeeps(t) ==
    /\ t \in cameraTimeouts
    /\ now >= t.deadline
    /\ cameraTimeouts' = cameraTimeouts \ {t}
    /\ cameraIntervals' = cameraIntervals
    /\ pLast' = "cameraStop"
    /\ UNCHANGED <<now, lastRefresh, pMounted, props, currentSectionRef, previousSectionRef,
                   selectedExperienceRef, currentPositions, targetPositions, positions,
                   camera, fallTimers, terrainOffset, rotationY, rotation,
                   pointSize, frameRef, pResources, pContainerRef, effectRuns, renders>>
    /\ UNCHANGED <<bvars, hvars, lvars, evars>>

\* setTimeout(() => clearInterval(cameraInterval), 2000)
CameraTimeoutFire(t) ==
    /\ t \in cameraTimeouts
    /\ now >= t.deadline
    /\ cameraTimeouts' = cameraTimeouts \ {t}
    /\ cameraIntervals' = {iv \in cameraIntervals : iv.id # t.id}
    /\ pLast' = "cameraStop"
    /\ UNCHANGED <<now, lastRefresh, pMounted, props, currentSectionRef, previousSectionRef,
                   selectedExperienceRef, currentPositions, targetPositions, positions,
                   camera, fallTimers, terrainOffset, rotationY, rotation,
                   pointSize, frameRef, pResources, pContainerRef, effectRuns, renders>>
    /\ UNCHANGED <<bvars, hvars, lvars, evars>>

\* animate() of the particle loop: ease, section transform, render
PFrame ==
    /\ frameRef
    /\ now > lastRefresh
    /\ lastRefresh' = now
    /\ frameRef' = TRUE
    /\ LET eased == [k \in Coords |->
                        EaseToward(currentPositions[k], targetPositions[k], 2)]
           offset == terrainOffset + TERRAIN_STEP
       IN  /\ currentPositions' = eased
           /\ IF currentSectionRef = 0
              THEN /\ rotation' = [x |-> 0, y |-> 0, z |-> 0]
                   /\ positions' = eased
                   /\ UNCHANGED <<terrainOffset, rotationY>>
              ELSE IF currentSectionRef = 1
              THEN /\ rotation' = [x |-> 0, y |-> 0, z |-> 0]
                   /\ terrainOffset' = offset
                   /\ positions' = [k \in Coords |->
                                       IF k % 3 = 2
                                       THEN TerrainZ(mountains[k], offset, eased[k])
                                       ELSE eased[k]]
                   /\ UNCHANGED rotationY
              ELSE IF currentSectionRef = 4
              THEN /\ rotationY' = rotationY + 3
                   /\ rotation' = [x |-> 100, y |-> rotationY + 3, z |-> 0]
                   /\ positions' = eased
                   /\ UNCHANGED terrainOffset
              ELSE IF currentSectionRef = 5 /\ selectedExperienceRef = 2
              THEN /\ rotation' = [x |-> 250, y |-> 0, z |-> 0]
                   /\ positions' = eased
                   /\ UNCHANGED <<terrainOffset, rotationY>>
              ELSE /\ rotationY' = rotationY + 2
                   /\ rotation' = [x |-> 0, y |-> rotationY + 2, z |-> 0]
                   /\ positions' = eased
                   /\ UNCHANGED terrainOffset
    /\ renders' = 1
    /\ pLast' = "frame"
    /\ UNCHANGED <<now, pMounted, props, currentSectionRef, previousSectionRef,
                   selectedExperienceRef, targetPositions, camera, cameraIntervals,
                   cameraTimeouts, fallTimers, pointSize, pResources, pContainerRef,
                   effectRuns>>
    /\ UNCHANGED <<bvars, hvars, lvars, evars>>

\* Unmount: the ref to the host div is detached, then the cleanups of the
\* init effect and of the last run of the section effect run.
PUnmount ==
    /\ pMounted
    /\ pMounted' = FALSE
    /\ pContainerRef' = FALSE
    /\ frameRef' = FALSE
    /\ pResources' = pResources \ {"resizeListener"}
    /\ cameraIntervals' = ClearInterval(cameraIntervals, effectRuns)
    /\ cameraTimeouts' = ClearTimeout(cameraTimeouts, effectRuns)
    /\ pLast' = "unmount"
    /\ UNCHANGED <<now, lastRefresh, props, currentSectionRef, previousSectionRef,
                   selectedExperienceRef, currentPositions, targetPositions, positions,
                   camera, fallTimers, terrainOffset, rotationY, rotation, pointSize,
                   effectRuns, renders>>
    /\ UNCHANGED <<bvars, hvars, lvars, evars>>

\* Time passes once everything due at this instant has run: the scheduled
\* frame, every live camera interval, every timer whose delay has elapsed
PTick(dt) ==
    /\ dt \in ParticleDts
    /\ now + dt <= MaxPNow
    /\ frameRef => lastRefresh = now
    /\ \A iv \in cameraIntervals : iv.last = now
    /\ \A t \in cameraTimeouts \cup fallTimers : t.deadline > now
    /\ now' = now + dt
    /\ pLast' = "tick"
    /\ UNCHANGED <<lastRefresh, pMounted, props, currentSectionRef, previousSectionRef,
                   selectedExperienceRef, currentPositions, targetPositions, positions,
                   camera, cameraIntervals, cameraTimeouts, fallTimers, terrainOffset,
                   rotationY, rotation, pointSize, frameRef, pResources, pContainerRef,
                   effectRuns, renders>>
    /\ UNCHANGED <<bvars, hvars, lvars, evars>>

\* After mount with currentSection = 0: the init effect has built the scene
\* from the mountains and run animate() once, the section effect has run once.
InitParticle ==
    /\ pMounted = TRUE
    /\ props = [section |-> 0, experience |-> 0, social |-> 0]
    /\ currentSectionRef = 0 /\ previousSectionRef = 0 /\ selectedExperienceRef = 0
    /\ currentPositions = mountains
    /\ targetPositions = textPositions
    /\ positions = mountains
    /\ camera = [x |-> 0, y |-> 0, z |-> 10000]
    /\ cameraIntervals = {[id |-> 1, target |-> CameraTarget(0, 0), last |-> 0]}
    /\ cameraTimeouts = {[id |-> 1, deadline |-> CAMERA_EASE_MS]}
    /\ fallTimers = {}
    /\ terrainOffset = 0 /\ rotationY = 0
    /\ rotation = [x |-> 0, y |-> 0, z |-> 0]
    /\ pointSize = PointSize(0)
    /\ frameRef = TRUE
    /\ pResources = {"resizeListener", "canvas", "renderer", "geometry", "material", "texture"}
    /\ pContainerRef = TRUE
    /\ effectRuns = 1
    /\ renders = 1
    /\ pLast = "init"

\* ===========================================================================
\* Host page: the scroll / gesture / click driven section changer
\* ===========================================================================

MaxHTicks == 5                  \* clock steps of the page model
HostDts == {500}                \* gaps between successive events, ms
MaxHNow == MaxHTicks * 500
ExpCards == {1}                 \* experience cards that are clicked
NavItems == {0, 2}              \* sections the nav buttons lead to
SwipeInputs == {-40, 10, 40}    \* touchStartY - touchEndY of a swipe, px

SCROLL_COOLDOWN == 1500
TRANSITION_MS == 1100           \* sectionTransition, and the isTransitioning timers
TOUCH_UNLOCK_MS == 1000         \* the unlock timer of handleTouchEnd
SWIPE_MIN == 30                 \* Math.abs(deltaY) < 30 is no swipe

\* Date.now() is in milliseconds since 1970: positive at every instant
DateOrigin == 1000
DateNow == DateOrigin + now

Abs(x) == IF x < 0 THEN -x ELSE x

\* nextSection < 0 || nextSection > 3 || currentSectionRef.current === 4
OutOfBounds(sec, dir) == sec + dir < 0 \/ sec + dir > 3 \/ sec = 4

\* A cooldown test with the 1000 ms window of the touch handler
CooldownBlocksShort == lockStartTime > 0 /\ DateNow - lockStartTime < TOUCH_UNLOCK_MS

\* lockStartTime.current > 0 && timeSinceLastLock < SCROLL_COOLDOWN
CooldownBlocks == lockStartTime > 0 /\ DateNow - lockStartTime < SCROLL_COOLDOWN

\* setIsTransitioning(true); setCurrentSection(next); setTimeout(..., 1100)
StartTransition(next, extraTimers) ==
    /\ hSectionRef' = next
    /\ hCurrentSection' = next
    /\ hTransitioning' = TRUE
    /\ hTimers' = hTimers \cup {[kind |-> "transition", deadline |-> now + TRANSITION_MS]}
                          \cup extraTimers

\* handleWheel, deltaY > 0 (dir = 1) or not (dir = -1)
HandleWheel(dir) ==
    /\ hDir' = dir
    /\ IF CooldownBlocks
       THEN /\ hLast' = "wheelDropped"
            /\ hDropped' = TRUE
            /\ UNCHANGED <<hSectionRef, hCurrentSection, hTransitioning, isScrolling,
                           lockStartTime, hTimers, lastWheel, lastGesture, lastTouch>>
       ELSE IF OutOfBounds(hSectionRef, dir)
       THEN /\ isScrolling' = FALSE
            /\ lockStartTime' = 0
            /\ hLast' = "wheelOutOfBounds"
            /\ UNCHANGED <<hSectionRef, hCurrentSection, hTransitioning, hTimers,
                           lastWheel, lastGesture, lastTouch, hDropped>>
       ELSE /\ isScrolling' = TRUE
            /\ lockStartTime' = DateNow
            /\ StartTransition(hSectionRef + dir,
                   {[kind |-> "unlock", deadline |-> now + SCROLL_COOLDOWN]})
            /\ hLast' = "wheelApplied"
            /\ lastWheel' = DateNow
            /\ lastGesture' = DateNow
            /\ UNCHANGED <<hDropped, lastTouch>>
    /\ UNCHANGED <<now, lastRefresh, hSelectedExperience>>
    /\ UNCHANGED <<bvars, pvars, lvars, evars>>

\* handleTouchEnd; deltaY = touchStartY - touchEndY
HandleTouchEnd(deltaY) ==
    /\ LET dir == IF deltaY > 0 THEN 1 ELSE -1
       IN  IF isScrolling
           THEN /\ hLast' = "touchLocked"
                /\ UNCHANGED <<hSectionRef, hCurrentSection, hTransitioning, isScrolling,
                               hTimers, lastGesture, lastTouch, hDir>>
           ELSE IF Abs(deltaY) < SWIPE_MIN
           THEN /\ hLast' = "touchShort"
                /\ UNCHANGED <<hSectionRef, hCurrentSection, hTransitioning, isScrolling,
                               hTimers, lastGesture, lastTouch, hDir>>
           ELSE IF OutOfBounds(hSectionRef, dir)
           THEN /\ isScrolling' = FALSE
                /\ hLast' = "touchOutOfBounds"
                /\ hDir' = dir
                /\ UNCHANGED <<hSectionRef, hCurrentSection, hTransitioning, hTimers,
                               lastGesture, lastTouch>>
           ELSE /\ isScrolling' = TRUE
                /\ StartTransition(hSectionRef + dir,
                       {[kind |-> "unlock", deadline |-> now + TOUCH_UNLOCK_MS]})
                /\ hLast' = "touchApplied"
                /\ hDir' = dir
                /\ lastGesture' = DateNow
                /\ lastTouch' = DateNow
    /\ UNCHANGED <<now, lastRefresh, hSelectedExperience, lockStartTime, lastWheel, hDropped>>
    /\ UNCHANGED <<bvars, pvars, lvars, evars>>

\* goToExperience(index): a click on a card of the experience section
GoToExperience(index) ==
    /\ hCurrentSection = 3
    /\ hSelectedExperience' = index
    /\ StartTransition(4, {})
    /\ hLast' = "goToExperience"
    /\ UNCHANGED <<now, lastRefresh, isScrolling, lockStartTime, hDir, lastWheel,
                   lastGesture, lastTouch, hDropped>>
    /\ UNCHANGED <<bvars, pvars, lvars, evars>>

\* returnFromExperience: a click on the return button of the detail view
ReturnFromExperience ==
    /\ hCurrentSection = 4
    /\ StartTransition(3, {})
    /\ hLast' = "return"
    /\ UNCHANGED <<now, lastRefresh, hSelectedExperience, isScrolling, lockStartTime,
                   hDir, lastWheel, lastGesture, lastTouch, hDropped>>
    /\ UNCHANGED <<bvars, pvars, lvars, evars>>

\* goToSection(index): a click on a nav button
GoToSection(index) ==
    /\ IF index = hSectionRef
       THEN /\ hLast' = "navNoop"
            /\ UNCHANGED <<hSectionRef, hCurrentSection, hTransitioning, hTimers>>
       ELSE /\ StartTransition(index, {})
            /\ hLast' = "goToSection"
    /\ UNCHANGED <<now, lastRefresh, hSelectedExperience, isScrolling, lockStartTime,
                   hDir, lastWheel, lastGesture, lastTouch, hDropped>>
    /\ UNCHANGED <<bvars, pvars, lvars, evars>>

\* A setTimeout callback of the page: isScrolling.current = false, or
\* setIsTransitioning(false)
HTimerFire(t) ==
    /\ t \in hTimers
    /\ now >= t.deadline
    /\ hTimers' = hTimers \ {t}
    /\ IF t.kind = "unlock"
       THEN /\ isScrolling' = FALSE
            /\ hLast' = "unlock"
            /\ UNCHANGED hTransitioning
       ELSE /\ hTransitioning' = FALSE
            /\ hLast' = "transitionEnd"
            /\ UNCHANGED isScrolling
    /\ UNCHANGED <<now, lastRefresh, hSectionRef, hCurrentSection, hSelectedExperience,
                   lockStartTime, hDir, lastWheel, lastGesture, lastTouch, hDropped>>
    /\ UNCHANGED <<bvars, pvars, lvars, evars>>

\* Time passes once every timer due at this instant has run
HTick(dt) ==
    /\ dt \in HostDts
    /\ now + dt <= MaxHNow
    /\ \A t \in hTimers : t.deadline > now
    /\ now' = now + dt
    /\ hLast' = "tick"
    /\ UNCHANGED <<lastRefresh, hSectionRef, hCurrentSection, hSelectedExperience,
                   hTransitioning, isScrolling, lockStartTime, hTimers, hDir, lastWheel,
                   lastGesture, lastTouch, hDropped>>
    /\ UNCHANGED <<bvars, pvars, lvars, evars>>

\* The page after mount: hero section, nothing locked
InitHost ==
    /\ hSectionRef = 0 /\ hCurrentSection = 0 /\ hSelectedExperience = 0
    /\ hTransitioning = FALSE
    /\ isScrolling = FALSE /\ lockStartTime = 0
    /\ hTimers = {}
    /\ hLast = "init" /\ hDir = 0
    /\ lastWheel = Null /\ lastGesture = Null /\ lastTouch = Null /\ hDropped = FALSE

\* ===========================================================================
\* generateAllSocialLogos: five per-brand blocks written into one array
\* ===========================================================================

MaxLogoN == 12                  \* particle counts 0..MaxLogoN are generated

\* Math.floor(PARTICLE_COUNT / 5)
particlesPerLogo(n) == n \div 5

\* startIdx
StartIdx(idx, n) == idx * particlesPerLogo(n)

\* An end index that treats the last logo like the others
EndIdxEven(idx, n) == (idx + 1) * particlesPerLogo(n)

\* endIdx: logoIdx === 4 ? PARTICLE_COUNT : (logoIdx + 1) * particlesPerLogo
EndIdx(idx, n) == IF idx = 4 THEN n ELSE (idx + 1) * particlesPerLogo(n)

\* One iteration of the inner loop: particle i is written from element
\* srcIdx = i - startIdx of the sub-generator's output (n particles long)
LogoWrite ==
    /\ logoIdx < 5
    /\ logoI < EndIdx(logoIdx, logoN)
    /\ LET srcIdx == logoI - StartIdx(logoIdx, logoN)
       IN  /\ logoSrcOk' = (logoSrcOk /\ srcIdx >= 0 /\ srcIdx < logoN)
           /\ logoWrites' = [logoWrites EXCEPT ![logoI] = @ + 1]
           /\ logoBlock' = [logoBlock EXCEPT ![logoI] = logoIdx]
    /\ logoI' = logoI + 1
    /\ UNCHANGED <<logoN, logoIdx>>
    /\ UNCHANGED <<now, lastRefresh, bvars, pvars, hvars, evars>>

\* The inner loop has ended: next logoIdx, i = its startIdx
LogoNextBlock ==
    /\ logoIdx < 5
    /\ logoI >= EndIdx(logoIdx, logoN)
    /\ logoIdx' = logoIdx + 1
    /\ logoI' = StartIdx(logoIdx + 1, logoN)
    /\ UNCHANGED <<logoN, logoWrites, logoBlock, logoSrcOk>>
    /\ UNCHANGED <<now, lastRefresh, bvars, pvars, hvars, evars>>

\* The generator's locals when a call with PARTICLE_COUNT = n begins
LogosStart(n) ==
    /\ logoN = n
    /\ logoIdx = 0 /\ logoI = 0
    /\ logoWrites = [i \in 0..(n - 1) |-> 0]
    /\ logoBlock = [i \in 0..(n - 1) |-> Null]
    /\ logoSrcOk = TRUE

\* Frames the scene has already spent in section 1 when observation starts
\* ===========================================================================
\* ExperiencePage (src/unnamed/part_000)
\* ===========================================================================
MaxETicks == 20                 \* the clock of the page stops after this many steps
ExpDts == {100}
MaxENow == MaxETicks * 100
ParamStrings == {"0", "4", "5", "-1", "abc", "3px"}

EntryCount == 5                 \* expEntries.length
SLIDE_OUT_MS == 400
SLIDE_IN_MS == 500
FADE_IN_MS == 50

NoTimer == [kind |-> "none", deadline |-> 0, newIdx |-> 0, enter |-> "none"]
NoRequest == [idx |-> 0, step |-> 0, at |-> Null, swapAt |-> Null]

\* parseInt(params.id, 10) on the strings of ParamStrings: leading digits
\* (with sign) are read, the rest is dropped, no digits gives NaN
parseInt(str) ==
    CASE str = "0"   -> [nan |-> FALSE, n |-> 0]
      [] str = "4"   -> [nan |-> FALSE, n |-> 4]
      [] str = "5"   -> [nan |-> FALSE, n |-> 5]
      [] str = "-1"  -> [nan |-> FALSE, n |-> 0 - 1]
      [] str = "3px" -> [nan |-> FALSE, n |-> 3]
      [] OTHER       -> [nan |-> TRUE, n |-> 0]

\* !isNaN(id) && id >= 0 && id < expEntries.length
ValidId(id) == ~id.nan /\ id.n >= 0 /\ id.n < EntryCount

\* a % n of JavaScript: the result has the sign of a
JsRem(a, n) == IF a >= 0 THEN a % n ELSE 0 - ((0 - a) % n)

\* (currentIdx - 1 + expEntries.length) % expEntries.length
PrevIdx(i) == JsRem(i - 1 + EntryCount, EntryCount)

\* (currentIdx + 1) % expEntries.length
NextIdx(i) == JsRem(i + 1, EntryCount)

\* useEffect[params.id] for a new value of params.id while mounted
SetParams(str) ==
    /\ eMounted
    /\ str # paramsId
    /\ paramsId' = str
    /\ IF ValidId(parseInt(str))
       THEN currentIdx' = parseInt(str).n /\ displayIdx' = parseInt(str).n
       ELSE UNCHANGED <<currentIdx, displayIdx>>
    /\ eTimers' = eTimers \cup
          {[kind |-> "fade", deadline |-> now + FADE_IN_MS, newIdx |-> 0, enter |-> "none"]}
    /\ eLast' = "params"
    /\ UNCHANGED <<eMounted, fadeIn, slideDirection, isTransitioning, transitionTimeout, eReq>>
    /\ UNCHANGED <<now, lastRefresh, bvars, pvars, hvars, lvars>>

\* The common body of goToPrev and goToNext: newIdx, the direction of the
\* slide-out and of the slide-in, and the label of the step
GoTo(newIdx, out, enter, step, label) ==
    /\ eMounted
    /\ IF isTransitioning
       THEN /\ eLast' = "ignored"
            /\ UNCHANGED <<isTransitioning, slideDirection, transitionTimeout, eTimers, eReq>>
       ELSE LET timer == [kind |-> "slideOut", deadline |-> now + SLIDE_OUT_MS,
                          newIdx |-> newIdx, enter |-> enter]
            IN  /\ isTransitioning' = TRUE
                /\ slideDirection' = out
                /\ eTimers' = (eTimers \ {transitionTimeout}) \cup {timer}
                /\ transitionTimeout' = timer
                /\ eReq' = [idx |-> currentIdx, step |-> step, at |-> now, swapAt |-> Null]
                /\ eLast' = label
    /\ UNCHANGED <<eMounted, paramsId, currentIdx, displayIdx, fadeIn>>
    /\ UNCHANGED <<now, lastRefresh, bvars, pvars, hvars, lvars>>

\* A goToNext that does not look at isTransitioning
GoToNextUnguarded ==
    /\ eMounted
    /\ LET timer == [kind |-> "slideOut", deadline |-> now + SLIDE_OUT_MS,
                     newIdx |-> NextIdx(currentIdx), enter |-> "entering-left"]
       IN  /\ isTransitioning' = TRUE
           /\ slideDirection' = "left"
           /\ eTimers' = (eTimers \ {transitionTimeout}) \cup {timer}
           /\ transitionTimeout' = timer
           /\ eReq' = [idx |-> currentIdx, step |-> 1, at |-> now, swapAt |-> Null]
           /\ eLast' = "goToNext"
    /\ UNCHANGED <<eMounted, paramsId, currentIdx, displayIdx, fadeIn>>
    /\ UNCHANGED <<now, lastRefresh, bvars, pvars, hvars, lvars>>

\* goToPrev: a click on the left arrow
GoToPrev == GoTo(PrevIdx(currentIdx), "right", "entering-right", EntryCount - 1, "goToPrev")

\* goToNext: a click on the right arrow
GoToNext == GoTo(NextIdx(currentIdx), "left", "entering-left", 1, "goToNext")

\* A setTimeout callback of the page.  The updates of one callback are
\* committed together; a callback that outlives the page updates nothing.
ETimerFire(t) ==
    /\ t \in eTimers
    /\ now >= t.deadline
    /\ IF ~eMounted
       THEN /\ eTimers' = eTimers \ {t}
            /\ eLast' = "lateTimer"
            /\ UNCHANGED <<currentIdx, displayIdx, fadeIn, slideDirection, isTransitioning,
                           transitionTimeout, eReq>>
       ELSE IF t.kind = "fade"
       THEN /\ eTimers' = eTimers \ {t}
            /\ fadeIn' = TRUE
            /\ eLast' = "fade"
            /\ UNCHANGED <<currentIdx, displayIdx, slideDirection, isTransitioning,
                           transitionTimeout, eReq>>
       ELSE IF t.kind = "slideOut"
       THEN LET timer == [kind |-> "slideIn", deadline |-> now + SLIDE_IN_MS,
                          newIdx |-> 0, enter |-> "none"]
            IN  /\ displayIdx' = t.newIdx
                /\ currentIdx' = t.newIdx
                /\ slideDirection' = t.enter
                /\ eTimers' = (eTimers \ {t}) \cup {timer}
                /\ transitionTimeout' = timer
                /\ eReq' = [eReq EXCEPT !.swapAt = now]
                /\ eLast' = "slideOut"
                /\ UNCHANGED <<fadeIn, isTransitioning>>
       ELSE /\ eTimers' = eTimers \ {t}
            /\ slideDirection' = "none"
            /\ isTransitioning' = FALSE
            /\ eLast' = "slideIn"
            /\ UNCHANGED <<currentIdx, displayIdx, fadeIn, transitionTimeout, eReq>>
    /\ UNCHANGED <<eMounted, paramsId>>
    /\ UNCHANGED <<now, lastRefresh, bvars, pvars, hvars, lvars>>

\* Unmount: the cleanup clears the timer held in transitionTimeout
EUnmount ==
    /\ eMounted
    /\ eMounted' = FALSE
    /\ eTimers' = eTimers \ {transitionTimeout}
    /\ eLast' = "unmount"
    /\ UNCHANGED <<paramsId, currentIdx, displayIdx, fadeIn, slideDirection,
                   isTransitioning, transitionTimeout, eReq>>
    /\ UNCHANGED <<now, lastRefresh, bvars, pvars, hvars, lvars>>

\* Time passes once every timer due at this instant has run
ETick(dt) ==
    /\ dt \in ExpDts
    /\ now + dt <= MaxENow
    /\ \A t \in eTimers : t.deadline > now
    /\ now' = now + dt
    /\ eLast' = "tick"
    /\ UNCHANGED <<lastRefresh, eMounted, paramsId, currentIdx, displayIdx, fadeIn,
                   slideDirection, isTransitioning, transitionTimeout, eTimers, eReq>>
    /\ UNCHANGED <<bvars, pvars, hvars, lvars>>

\* The page after mount on the route /experience/<str>: the states start at
\* 0, the effect of params.id has run once and its fade timer is pending
InitExperience(str) ==
    /\ eMounted = TRUE
    /\ paramsId = str
    /\ currentIdx = IF ValidId(parseInt(str)) THEN parseInt(str).n ELSE 0
    /\ displayIdx = IF ValidId(parseInt(str)) THEN parseInt(str).n ELSE 0
    /\ fadeIn = FALSE
    /\ slideDirection = "none"
    /\ isTransitioning = FALSE
    /\ transitionTimeout = NoTimer
    /\ eTimers = {[kind |-> "fade", deadline |-> FADE_IN_MS, newIdx |-> 0, enter |-> "none"]}
    /\ eReq = NoRequest
    /\ eLast = "init"

ScrollFrames == {0, 999, 1999, 2999}
MaxScrollRuns == 4              \* runs of the section effect in the scroll model

\* The scene settled in section 1 (entered from the hero) after `frames`
\* frames there: CURRENT has reached the mountains, the camera its pose, the
\* easing interval has been stopped by its 2000 ms timer, and every frame has
\* added 0.025 to the scroll offset.
InitScrolled(frames) ==
    /\ pMounted = TRUE
    /\ props = [section |-> 1, experience |-> 0, social |-> 0]
    /\ currentSectionRef = 1 /\ previousSectionRef = 0 /\ selectedExperienceRef = 0
    /\ currentPositions = mountains
    /\ targetPositions = mountains
    /\ positions = [k \in Coords |->
                       IF k % 3 = 2 /\ frames > 0
                       THEN WrapZ(mountains[k] + frames * TERRAIN_STEP)
                       ELSE mountains[k]]
    /\ camera = CameraTarget(1, 0)
    /\ cameraIntervals = {} /\ cameraTimeouts = {} /\ fallTimers = {}
    /\ terrainOffset = frames * TERRAIN_STEP
    /\ rotationY = 0
    /\ rotation = [x |-> 0, y |-> 0, z |-> 0]
    /\ pointSize = PointSize(1)
    /\ frameRef = TRUE
    /\ pResources = {"resizeListener", "canvas", "renderer", "geometry", "material", "texture"}
    /\ pContainerRef = TRUE
    /\ effectRuns = 2
    /\ renders = 1
    /\ pLast = "frame"

InitBullet ==
    /\ bMounted = TRUE /\ active = FALSE
    /\ delayRef = Null /\ sceneRef = "null"
    /\ st = [NewState(0) EXCEPT !.disposed = TRUE]
    /\ bullets = [i \in BulletIds |-> NewBullet]
    /\ rafScheduled = {} /\ listeners = {} /\ canvases = {} /\ gpuLive = {}
    /\ containerRef = TRUE
    /\ viewport = "wide"
    /\ bLast = "init"
    /\ onCompleteCalls = 0

\* The overlay activated at time 0, at the instant its start-delay timer has
\* built the first scene and requested the first frame
InitBuilt ==
    /\ bMounted = TRUE /\ active = TRUE
    /\ delayRef = Null /\ sceneRef = "scene"
    /\ st = [gen |-> 1, startTime |-> START_DELAY, animationId |-> 1,
             disposed |-> FALSE, frozen |-> FALSE, flyingOut |-> FALSE,
             flyOutStart |-> 0, lastTimestamp |-> START_DELAY]
    /\ bullets = [i \in BulletIds |-> NewBullet]
    /\ rafScheduled = {[id |-> 1, gen |-> 1]}
    /\ listeners = {1} /\ canvases = {1} /\ gpuLive = {1}
    /\ containerRef = TRUE
    /\ viewport = "wide"
    /\ bLast = "build"
    /\ onCompleteCalls = 0

InitShootIn ==
    /\ now = START_DELAY /\ lastRefresh = -1
    /\ InitBuilt
    /\ InitParticle
    /\ InitHost
    /\ InitExperience("0")
    /\ LogosStart(PARTICLE_COUNT)

\* Everything but the locals of generateAllSocialLogos
InitScenes ==
    /\ now = 0 /\ lastRefresh = -1
    /\ InitBullet
    /\ InitParticle
    /\ InitHost
    /\ InitExperience("0")

Init ==
    /\ InitScenes
    /\ LogosStart(PARTICLE_COUNT)

\* The terrain section after any of the frame counts of ScrollFrames
InitTerrainScroll ==
    /\ now = 0 /\ lastRefresh = -1
    /\ InitBullet
    /\ InitHost
    /\ InitExperience("0")
    /\ LogosStart(PARTICLE_COUNT)
    /\ \E frames \in ScrollFrames : InitScrolled(frames)

MaxOffset == 60                 \* largest distance to TARGET drawn, thousandths
EaseOffsets == (0 - MaxOffset)..MaxOffset

\* The hero section long after its fall-to-text: the camera interval has been
\* stopped by its timer, TARGET is the text shape and the frames so far have
\* eased every coordinate of CURRENT to within d of it.
InitSettled(d) ==
    /\ pMounted = TRUE
    /\ props = [section |-> 0, experience |-> 0, social |-> 0]
    /\ currentSectionRef = 0 /\ previousSectionRef = 0 /\ selectedExperienceRef = 0
    /\ targetPositions = textPositions
    /\ currentPositions = [k \in Coords |-> textPositions[k] + d]
    /\ positions = [k \in Coords |-> textPositions[k] + d]
    /\ camera = CameraTarget(0, 0)
    /\ cameraIntervals = {} /\ cameraTimeouts = {} /\ fallTimers = {}
    /\ terrainOffset = 0 /\ rotationY = 0
    /\ rotation = [x |-> 0, y |-> 0, z |-> 0]
    /\ pointSize = PointSize(0)
    /\ frameRef = TRUE
    /\ pResources = {"resizeListener", "canvas", "renderer", "geometry", "material", "texture"}
    /\ pContainerRef = TRUE
    /\ effectRuns = 1
    /\ renders = 1
    /\ pLast = "frame"

InitEasing ==
    /\ now = 0 /\ lastRefresh = -1
    /\ InitBullet
    /\ InitHost
    /\ InitExperience("0")
    /\ LogosStart(PARTICLE_COUNT)
    /\ \E d \in EaseOffsets : InitSettled(d)

\* The experience page mounted on any of the routes of ParamStrings
InitPage ==
    /\ now = 0 /\ lastRefresh = -1
    /\ InitBullet
    /\ InitParticle
    /\ InitHost
    /\ LogosStart(PARTICLE_COUNT)
    /\ \E str \in ParamStrings : InitExperience(str)

\* Calls of generateAllSocialLogos for every particle count up to MaxLogoN
InitLogos ==
    /\ InitScenes
    /\ \E n \in 0..MaxLogoN : LogosStart(n)

vars == <<now, lastRefresh, bvars, pvars, hvars, lvars, evars>>

NextBullet ==
    \/ Activate
    \/ Deactivate
    \/ TimerFire
    \/ \E cb \in rafScheduled : Animate(cb)
    \/ \E g \in listeners, v \in Viewports : Resize(g, v)
    \/ Unmount
    \/ \E dt \in BulletDts : BTick(dt)

SpecBullet == Init /\ [][NextBullet]_vars

NextParticle ==
    \/ \E s \in Sections, e \in ExpInputs, so \in SocialInputs :
          effectRuns < MaxEffectRuns /\ SetProps(s, e, so)
    \/ \E t \in fallTimers : FallTimerFire(t)
    \/ \E iv \in cameraIntervals : CameraTick(iv)
    \/ \E t \in cameraTimeouts : CameraTimeoutFire(t)
    \/ PFrame
    \/ PUnmount
    \/ \E dt \in ParticleDts : PTick(dt)

SpecParticle == Init /\ [][NextParticle]_vars

\* The particle scene driven back and forth between hero (0) and terrain (1)
NextTerrainHero ==
    \/ \E s \in {0, 1} : effectRuns < MaxHeroRuns /\ SetProps(s, 0, 0)
    \/ \E t \in fallTimers : FallTimerFire(t)
    \/ \E iv \in cameraIntervals : CameraTick(iv)
    \/ \E t \in cameraTimeouts : CameraTimeoutFire(t)
    \/ PFrame
    \/ PUnmount
    \/ \E dt \in ParticleDts : PTick(dt)

SpecTerrainHero == Init /\ [][NextTerrainHero]_vars

\* The terrain being left for the hero and re-entered while it scrolls
NextTerrainScroll ==
    \/ \E s \in {0, 1} : effectRuns < MaxScrollRuns /\ SetProps(s, 0, 0)
    \/ \E t \in fallTimers : FallTimerFire(t)
    \/ \E iv \in cameraIntervals : CameraTick(iv)
    \/ \E t \in cameraTimeouts : CameraTimeoutFire(t)
    \/ PFrame
    \/ PUnmount
    \/ \E dt \in ParticleDts : PTick(dt)

SpecTerrainScroll == InitTerrainScroll /\ [][NextTerrainScroll]_vars

\* The hero scene close to rest: only frames run
NextEasing ==
    \/ PFrame
    \/ \E dt \in ParticleDts : PTick(dt)

SpecEasing == InitEasing /\ [][NextEasing]_vars

NextHost ==
    \/ \E dir \in {-1, 1} : HandleWheel(dir)
    \/ \E deltaY \in SwipeInputs : HandleTouchEnd(deltaY)
    \/ \E index \in ExpCards : GoToExperience(index)
    \/ ReturnFromExperience
    \/ \E index \in NavItems : GoToSection(index)
    \/ \E t \in hTimers : HTimerFire(t)
    \/ \E dt \in HostDts : HTick(dt)

SpecHost == Init /\ [][NextHost]_vars

NextLogos ==
    \/ LogoWrite
    \/ LogoNextBlock

SpecLogos == InitLogos /\ [][NextLogos]_vars


\* The first scene while its bullets launch, frames 50 ms apart or rarer
NextShootIn ==
    \/ \E cb \in rafScheduled : Animate(cb)
    \/ Deactivate
    \/ \E dt \in FineDts : BFineTick(dt)

SpecShootIn == InitShootIn /\ [][NextShootIn]_vars

NextExperience ==
    \/ \E str \in ParamStrings : SetParams(str)
    \/ GoToPrev
    \/ GoToNext
    \/ \E t \in eTimers : ETimerFire(t)
    \/ EUnmount
    \/ \E dt \in ExpDts : ETick(dt)

SpecExperience == InitPage /\ [][NextExperience]_vars

\* Fairness: the display keeps refreshing and the clock keeps running
FairSpecBullet ==
    /\ SpecBullet
    /\ WF_vars(\E dt \in BulletDts : BTick(dt))
    /\ WF_vars(\E cb \in rafScheduled : Animate(cb))

\* ---------------------------------------------------------------------------
\* Properties of BulletTimeScene
\* ---------------------------------------------------------------------------

\* Canvases that are in the document: the overlay div leaves it on unmount
DocumentCanvases == IF bMounted THEN canvases ELSE {}

FullyDisposed ==
    /\ sceneRef = "null" /\ st.disposed
    /\ listeners = {} /\ DocumentCanvases = {} /\ gpuLive = {}

RenderingSteps == {"flyOut", "frozen", "freeze", "shootIn"}

\* C1: once `active` is false while a scene exists (the fly-out has begun and
\* its duration fits in the modelled time), the scene is eventually fully
\* disposed: disposed flag set, resize listener removed, canvas out of the
\* document, resources released, sceneRef null; and while no scene exists no
\* frame callback is pending and no step renders.
C1_FlyOutEndsDisposed ==
    /\ ((sceneRef = "scene" /\ st.flyingOut
            /\ st.flyOutStart + FLY_OUT_DURATION <= MaxNow) ~> FullyDisposed)
    /\ [](sceneRef = "null" => rafScheduled = {})
    /\ [][sceneRef = "null" => bLast' \notin RenderingSteps]_vars

\* a fly-out ran to its end and the frame callback disposed the scene
C1_Witness ==
    /\ bLast = "cleanup" /\ FullyDisposed /\ bMounted /\ st.flyingOut
    /\ \E i \in BulletIds : bullets[i].out > 0

\* C2: a step that leaves `active` false leaves no start-delay timer pending
\* and builds nothing; a deactivation during the start delay therefore
\* cancels the timer and no scene, canvas, listener or frame callback of that
\* activation ever appears.
C2_CancelDuringDelay ==
    [][~active' =>
         /\ delayRef' = Null
         /\ bLast' # "build"
         /\ (bLast' = "cancelDelay" =>
               /\ sceneRef' = "null" /\ rafScheduled' = {}
               /\ canvases' = {} /\ listeners' = {} /\ gpuLive' = {})]_vars

\* `active` went false 300 ms into the start delay
C2_Witness ==
    /\ bLast = "cancelDelay" /\ now > 0 /\ st.gen = 0
    /\ delayRef = Null /\ sceneRef = "null"

\* C3: a deactivation that finds a scene not yet flying out - shooting in or
\* frozen - sets flyingOut, records the time, clears frozen, and disposes
\* nothing in that step.
C3_DeactivateStartsFlyOut ==
    [][(bMounted /\ active /\ ~active' /\ sceneRef = "scene" /\ ~st.flyingOut) =>
         /\ st'.flyingOut /\ st'.flyOutStart = now /\ ~st'.frozen
         /\ sceneRef' = "scene" /\ ~st'.disposed
         /\ rafScheduled' = rafScheduled /\ rafScheduled' # {}
         /\ listeners' = listeners /\ canvases' = canvases /\ gpuLive' = gpuLive
         /\ st.gen \in listeners' /\ st.gen \in canvases' /\ st.gen \in gpuLive'
         /\ bullets' = bullets]_vars

\* a frozen scene was deactivated
C3_Witness ==
    /\ bLast = "flyOutFromFrozen" /\ st.flyingOut /\ ~st.frozen
    /\ st.flyOutStart = now /\ sceneRef = "scene"

IsFresh(b) ==
    /\ b.lerp = 0 /\ b.out = 0 /\ ~b.started /\ b.spin = 0
    /\ ~b.tVisible /\ ~b.tPlaced

\* C4: an activation that finds a scene disposes it completely before the new
\* start-delay timer is set, and every scene the timer builds starts fresh:
\* all bullets at their start point, not started, not frozen, not flying out.
C4_ReactivateRebuildsFresh ==
    /\ [][(bMounted /\ ~active /\ active' /\ sceneRef = "scene") =>
            /\ sceneRef' = "null" /\ st'.disposed
            /\ rafScheduled' = {} /\ listeners' = {} /\ canvases' = {} /\ gpuLive' = {}
            /\ delayRef' = now + START_DELAY]_vars
    /\ [][bLast' = "build" =>
            /\ \A i \in BulletIds : IsFresh(bullets'[i])
            /\ ~st'.frozen /\ ~st'.flyingOut /\ ~st'.disposed
            /\ st'.startTime = now /\ st'.lastTimestamp = now
            /\ st'.gen = st.gen + 1]_vars

\* the second scene was built after a reactivation in mid fly-out
C4_Witness ==
    /\ bLast = "build" /\ st.gen = 2 /\ now < 2 * START_DELAY + FLY_OUT_DURATION
    /\ \A i \in BulletIds : IsFresh(bullets[i])

\* C5: after unmount there is no pending start-delay timer, no scene, no
\* resize listener and no scheduled frame callback.
C5_UnmountDisposes ==
    ~bMounted =>
        /\ delayRef = Null /\ sceneRef = "null"
        /\ listeners = {} /\ rafScheduled = {} /\ gpuLive = {}

\* unmounted during a fly-out
C5_Witness ==
    /\ bLast = "unmount" /\ ~bMounted /\ st.flyingOut /\ st.gen >= 1

\* C6: in the frame that switches to FROZEN-SPIN every bullet is at its end
\* point and marked started.
C6_AllAtEndWhenFrozen ==
    bLast = "freeze" =>
        \A i \in BulletIds : bullets[i].lerp = EaseScale /\ bullets[i].started


FrameKinds == {"shootIn", "freeze", "frozen", "flyOut"}

\* C22: in a shoot-in frame a bullet whose launch delay has not elapsed stays
\* exactly at its start point, not started, with its trails hidden; and the
\* started flag is raised only by a shoot-in frame whose elapsed time has
\* reached the bullet's delay.
C22_DelayedBulletsWait ==
    [][/\ (bLast' = "shootIn" /\ lastRefresh' # lastRefresh) =>
            \A i \in BulletIds :
               now - st.startTime < DelayMs(i) =>
                  /\ bullets'[i].lerp = 0 /\ bullets'[i].out = 0
                  /\ ~bullets'[i].started /\ ~bullets'[i].tVisible
       /\ \A i \in BulletIds :
             (~bullets[i].started /\ bullets'[i].started) =>
                /\ bLast' = "shootIn" /\ lastRefresh' = now
                /\ now - st.startTime >= DelayMs(i)]_vars

\* a shoot-in frame 100 ms into the scene: the bullets with delays 0, 90 and
\* 60 ms are under way, those with delays 135 and 150 ms still wait
C22_Witness ==
    /\ bLast = "shootIn" /\ st.lastTimestamp = now /\ now - st.startTime = 100
    /\ bullets[1].started /\ bullets[2].started /\ bullets[3].started
    /\ ~bullets[4].started /\ ~bullets[5].started
    /\ bullets[2].lerp > 0 /\ bullets[4].lerp = 0 /\ ~bullets[4].tVisible

\* C23 as stated: every frame of a live scene advances the spin of every
\* bullet by a positive multiple of the frame's dt.
C23_SpinEveryFrame ==
    [][(bLast' \in FrameKinds /\ lastRefresh' # lastRefresh) =>
          \A i \in BulletIds :
             \E k \in {SPIN_SPEED2, 3 * SPIN_SPEED2} :
                bullets'[i].spin = bullets[i].spin + k * (now - st.lastTimestamp)]_vars

\* C24: while `active` stays true a frozen scene stays the same frozen scene,
\* and a frozen frame changes nothing of a bullet but its spin, which it
\* advances by SPIN_SPEED * dt.
C24_FrozenHolds ==
    [][/\ (sceneRef = "scene" /\ st.frozen /\ active /\ active' /\ bMounted') =>
            /\ sceneRef' = "scene" /\ st'.gen = st.gen
            /\ st'.frozen /\ ~st'.flyingOut /\ ~st'.disposed
       /\ (bLast' = "frozen" /\ lastRefresh' # lastRefresh) =>
            \A i \in BulletIds :
               bullets'[i] = [bullets[i] EXCEPT
                                 !.spin = @ + SPIN_SPEED2 * (now - st.lastTimestamp)]]_vars

\* a frozen frame has run 300 ms after another frame of the frozen scene
C24_Witness ==
    /\ bLast = "frozen" /\ st.frozen /\ active /\ st.lastTimestamp = now
    /\ now - st.startTime >= ANIM_DURATION + 600
    /\ \A i \in BulletIds : bullets[i].spin > 0 /\ bullets[i].tVisible

\* C26: a pending start-delay timer and a scene never exist together, and
\* there is never more than one scene: at most one canvas in the document,
\* one resize listener, one set of GPU resources.
C26_TimerXorScene ==
    /\ ~(delayRef # Null /\ sceneRef = "scene")
    /\ Cardinality(listeners) <= 1
    /\ Cardinality(canvases) <= 1
    /\ Cardinality(gpuLive) <= 1
    /\ sceneRef = "scene" =>
          /\ listeners = {st.gen} /\ canvases = {st.gen} /\ gpuLive = {st.gen}

\* re-activation during a fly-out: the scene is gone, the timer is pending
C26_Witness ==
    /\ bLast = "reactivate" /\ active /\ delayRef = now + START_DELAY
    /\ sceneRef = "null" /\ st.flyingOut /\ st.disposed
    /\ listeners = {} /\ canvases = {}

\* C27: within a scene the started flag of a bullet never goes back to
\* false, and after every frame the ghosts of a bullet are visible exactly
\* when the bullet is started.
C27_StartedSticksTrailsFollow ==
    [][/\ \A i \in BulletIds :
             (bullets[i].started /\ st'.gen = st.gen) => bullets'[i].started
       /\ (bLast' \in FrameKinds /\ lastRefresh' # lastRefresh) =>
             \A i \in BulletIds : bullets'[i].tVisible = bullets'[i].started]_vars

\* a fly-out frame of a scene deactivated before all its bullets had started
C27_Witness ==
    /\ bLast = "flyOut" /\ st.flyingOut
    /\ \E i \in BulletIds : bullets[i].started /\ bullets[i].tVisible
    /\ \E i \in BulletIds :
          ~bullets[i].started /\ ~bullets[i].tVisible /\ bullets[i].tPlaced

\* ---------------------------------------------------------------------------
\* Properties of ParticleScene
\* ---------------------------------------------------------------------------

\* C7: a change from section 1 to section 0 sets TARGET to the fall positions
\* (x and z of CURRENT, y = -12 - 4 * group, group in 0..9), and while that
\* change is the latest one and its 1200 ms have not elapsed TARGET is not the
\* text shape.
C7_FallHoldsUntilDelay ==
    /\ [][(currentSectionRef = 1 /\ currentSectionRef' = 0) =>
            \A i \in Particles :
               /\ targetPositions'[3 * i] = currentPositions[3 * i]
               /\ targetPositions'[3 * i + 2] = currentPositions[3 * i + 2]
               /\ \E g \in 0..9 : targetPositions'[3 * i + 1] = -12000 - 4000 * g]_vars
    /\ [](\A t \in fallTimers :
            (pMounted /\ t.id = effectRuns /\ now < t.deadline)
               => targetPositions # textPositions)

\* C8: a change from section 0 to section 1 overwrites CURRENT with the
\* mountains' x and z and y = -12 - 4 * group(i), group(i) in 0..9 the group of
\* the fall, and sets TARGET to the unmodified mountains.
C8_RisePreseedsCurrent ==
    [][(currentSectionRef = 0 /\ currentSectionRef' = 1) =>
         /\ targetPositions' = mountains
         /\ \A i \in Particles :
              /\ Group(i) \in 0..9
              /\ currentPositions'[3 * i] = mountains[3 * i]
              /\ currentPositions'[3 * i + 1] = -12000 - 4000 * Group(i)
              /\ currentPositions'[3 * i + 2] = mountains[3 * i + 2]
              /\ currentPositions'[3 * i + 1] # targetPositions'[3 * i + 1]]_vars

\* the terrain was entered from the hero after CURRENT had moved off the mountains
C8_Witness ==
    /\ pLast = "rise" /\ currentSectionRef = 1 /\ previousSectionRef = 0
    /\ lastRefresh >= 0
    /\ currentPositions = RisePositions /\ targetPositions = mountains

\* The shape the table gives for a section
TableShape(sec, exp) ==
    CASE sec = 0 -> textPositions
      [] sec = 1 -> mountains
      [] sec = 2 -> sphere
      [] sec = 3 -> spaceship
      [] sec = 4 -> satellite
      [] sec = 5 -> expShapes[IF exp \in 0..4 THEN exp ELSE 0]

\* The camera pose the table gives for a section
TablePose(sec, exp) ==
    CASE sec = 0 -> <<0, 0, 20000>>
      [] sec = 1 -> <<0, 5000, 18000>>
      [] sec = 2 -> <<0, 0, 10000>>
      [] sec = 3 -> <<-8000, 1000, 18000>>
      [] sec = 4 -> <<0, 0, 12000>>
      [] sec = 5 -> CASE exp = 1 -> <<3500, 0, 8000>>
                      [] exp = 2 -> <<3700, 0, 9000>>
                      [] exp = 3 -> <<3000, 0, 8000>>
                      [] exp = 4 -> <<3500, 0, 8000>>
                      [] OTHER -> <<3500, 300, 8000>>

AsTriple(v) == <<v.x, v.y, v.z>>

\* C9: right after a section or selector change other than 1 -> 0, TARGET is
\* the cached shape of the new section and the camera target is the table
\* pose: the pose the new easing interval steers to, or, in section 5, the
\* camera position itself.
C9_TargetAndPoseFollowTable ==
    [][(effectRuns' # effectRuns /\ ~(currentSectionRef = 1 /\ currentSectionRef' = 0)) =>
         /\ currentSectionRef' = props'.section
         /\ targetPositions' = TableShape(props'.section, props'.experience)
         /\ IF props'.section = 5
            THEN AsTriple(camera') = TablePose(5, props'.experience)
            ELSE \E iv \in cameraIntervals' :
                    /\ iv.id = effectRuns'
                    /\ AsTriple(iv.target) = TablePose(props'.section, props'.experience)]_vars

\* the spacecraft section was entered
C9_Witness ==
    /\ pLast = "section" /\ currentSectionRef = 3 /\ targetPositions = spaceship
    /\ \E iv \in cameraIntervals : iv.target.x = -8000

\* C10: whenever the current section is 5 the camera is at the pose of the
\* selected experience: it is put there in the step of the change and no
\* easing tick of an earlier change moves it afterwards.
C10_Section5CameraSnaps ==
    /\ [](currentSectionRef = 5 =>
            /\ AsTriple(camera) = TablePose(5, selectedExperienceRef)
            /\ cameraIntervals = {})
    /\ [][(currentSectionRef = 5 /\ currentSectionRef' = 5 /\ effectRuns' = effectRuns)
            => camera' = camera]_vars

\* section 5 (Rhodes Island) was entered while the camera was still easing,
\* and time has passed since
C10_Witness ==
    /\ currentSectionRef = 5 /\ selectedExperienceRef = 2 /\ previousSectionRef # 5
    /\ pLast = "frame" /\ now >= 800 /\ now < CAMERA_EASE_MS
    /\ camera = [x |-> 3700, y |-> 0, z |-> 9000]

\* C11: a change that leaves the scene in section 5 with a selectedExperience
\* outside 0..4 (negative or >= 5) completes like any other change, sets TARGET
\* to the shape of experience 0 and puts the camera at its pose (3.5, 0.3, 8).
C11_OutOfRangeFallsBack ==
    [][(effectRuns' # effectRuns /\ props'.section = 5 /\ props'.experience \notin 0..4) =>
         /\ targetPositions' = expShapes[0]
         /\ camera' = [x |-> 3500, y |-> 300, z |-> 8000]
         /\ currentSectionRef' = 5 /\ selectedExperienceRef' = props'.experience
         /\ pointSize' = 40
         /\ pLast' = "section"]_vars

\* section 5 was entered with selectedExperience = -1 from another pose
C11_Witness ==
    /\ pLast = "section" /\ props.section = 5 /\ props.experience = -1
    /\ previousSectionRef # 5
    /\ targetPositions = expShapes[0] /\ camera.y = 300

\* C14: once the scene is unmounted no step - no frame, interval tick or timer
\* callback - writes CURRENT, TARGET or the camera position.
C14_NoWritesAfterUnmount ==
    [][~pMounted => UNCHANGED <<currentPositions, targetPositions, camera>>]_vars

\* C15: after unmount no frame is scheduled and everything the init effect
\* created is released: resize listener, canvas, renderer, geometry, material
\* and dot texture.
C15_UnmountReleasesAll ==
    ~pMounted => (~frameRef /\ pResources = {})

\* C16: CURRENT and TARGET have exactly 3 * PARTICLE_COUNT elements, indexed
\* 0 .. 3 * PARTICLE_COUNT - 1, in every state.
C16_BufferLengthsFixed ==
    /\ DOMAIN currentPositions = 0..(3 * PARTICLE_COUNT - 1)
    /\ DOMAIN targetPositions = 0..(3 * PARTICLE_COUNT - 1)
    /\ Cardinality(DOMAIN currentPositions) = 3 * PARTICLE_COUNT
    /\ Cardinality(DOMAIN targetPositions) = 3 * PARTICLE_COUNT

\* a rise, a fall, frames and the fall's timer callback have all written the buffers
C16_Witness ==
    /\ pLast = "fallToText" /\ previousSectionRef = 1 /\ lastRefresh > 0
    /\ targetPositions = textPositions
    /\ Cardinality(DOMAIN currentPositions) = 3 * PARTICLE_COUNT

\* C19: a frame eases every coordinate of CURRENT toward TARGET, renders once,
\* and what it renders is the eased CURRENT except, in section 1, the z of
\* every particle, which is base mountain z + scroll offset wrapped into
\* (-25, 25] and not the eased CURRENT z.
C19_FrameOrder ==
    [][(pLast' = "frame" /\ lastRefresh' # lastRefresh) =>
         /\ renders' = 1
         /\ \A k \in Coords :
              /\ currentPositions'[k]
                    = EaseToward(currentPositions[k], targetPositions[k], 2)
              /\ (currentSectionRef # 1 \/ k % 3 # 2) => positions'[k] = currentPositions'[k]
              /\ (currentSectionRef = 1 /\ k % 3 = 2) =>
                    /\ positions'[k] > -TERRAIN_BOUNDS /\ positions'[k] <= TERRAIN_BOUNDS
                    /\ (mountains[k] + terrainOffset' - positions'[k])
                          % (2 * TERRAIN_BOUNDS) = 0]_vars

\* a terrain frame rendered a z that differs from the eased CURRENT z
C19_Witness ==
    /\ pLast = "frame" /\ currentSectionRef = 1 /\ renders = 1 /\ terrainOffset > 0
    /\ \E i \in Particles : positions[3 * i + 2] # currentPositions[3 * i + 2]
    /\ \A i \in Particles : positions[3 * i] = currentPositions[3 * i]

\* C20: in every terrain frame, whatever scroll offset has accumulated, the
\* rendered z of every particle is base z + offset - 50 * k for an integer
\* k >= 0 and lies in (-25, 25]; hence the rendered z of two particles differ
\* from their base z difference by a multiple of 50.
C20_TerrainWraps ==
    [][(pLast' = "frame" /\ lastRefresh' # lastRefresh /\ currentSectionRef = 1) =>
         /\ terrainOffset' = terrainOffset + TERRAIN_STEP
         /\ \A i \in Particles :
              /\ \E k \in 0..((terrainOffset' \div (2 * TERRAIN_BOUNDS)) + 1) :
                    positions'[3 * i + 2]
                       = mountains[3 * i + 2] + terrainOffset' - 2 * TERRAIN_BOUNDS * k
              /\ positions'[3 * i + 2] > -TERRAIN_BOUNDS
              /\ positions'[3 * i + 2] <= TERRAIN_BOUNDS
         /\ \A i, j \in Particles :
              ((positions'[3 * i + 2] - positions'[3 * j + 2])
                 - (mountains[3 * i + 2] - mountains[3 * j + 2])) % (2 * TERRAIN_BOUNDS) = 0]_vars

\* a frame wrapped one particle twice (k = 2) and another one once, after the
\* terrain had been left and re-entered
C20_Witness ==
    /\ pLast = "frame" /\ currentSectionRef = 1 /\ effectRuns = 4
    /\ \E i, j \in Particles :
         /\ positions[3 * i + 2] = mountains[3 * i + 2] + terrainOffset - 4 * TERRAIN_BOUNDS
         /\ positions[3 * j + 2] = mountains[3 * j + 2] + terrainOffset - 2 * TERRAIN_BOUNDS

\* C21 as stated: one easing step brings every coordinate of CURRENT that
\* differs from TARGET strictly closer to it and leaves a coordinate equal to
\* its target unchanged.
C21_StrictContraction ==
    [][(pLast' = "frame" /\ lastRefresh' # lastRefresh) =>
         \A k \in Coords :
            /\ currentPositions[k] # targetPositions[k] =>
                  Abs(targetPositions[k] - currentPositions'[k])
                     < Abs(targetPositions[k] - currentPositions[k])
            /\ currentPositions[k] = targetPositions[k] =>
                  currentPositions'[k] = currentPositions[k]]_vars

\* C21 amended: one easing step never moves a coordinate of CURRENT away from
\* TARGET, brings it strictly closer whenever the exact step 0.02 * |t - c|
\* is more than half the spacing of the stored values, and leaves a
\* coordinate equal to its target unchanged.
C21_Contraction ==
    [][(pLast' = "frame" /\ lastRefresh' # lastRefresh) =>
         \A k \in Coords :
            /\ Abs(targetPositions[k] - currentPositions'[k])
                  <= Abs(targetPositions[k] - currentPositions[k])
            /\ 2 * Abs(targetPositions[k] - currentPositions[k]) > 50 =>
                  Abs(targetPositions[k] - currentPositions'[k])
                     < Abs(targetPositions[k] - currentPositions[k])
            /\ currentPositions[k] = targetPositions[k] =>
                  currentPositions'[k] = currentPositions[k]]_vars

\* a frame has eased CURRENT and left it more than the stall distance away
C21_Witness ==
    /\ pLast = "frame" /\ lastRefresh = now /\ renders = 1
    /\ \E k \in Coords :
          /\ currentPositions[k] # targetPositions[k]
          /\ 2 * Abs(targetPositions[k] - currentPositions[k]) > 50

\* C25: at most one camera-easing interval is live; it belongs to the latest
\* run of the section effect and eases toward the pose of the current
\* section and selector; it is started together with a timer due 2000 ms
\* later and is never live past that timer (nor after a later change or
\* the unmount).
C25_OneCameraInterval ==
    /\ [](/\ Cardinality(cameraIntervals) <= 1
          /\ \A iv \in cameraIntervals :
                /\ pMounted
                /\ iv.id = effectRuns
                /\ iv.target = CameraTarget(props.section, props.experience)
                /\ \E t \in cameraTimeouts : t.id = iv.id /\ now <= t.deadline)
    /\ [][\A iv \in cameraIntervals' :
             (\A old \in cameraIntervals : old.id # iv.id) =>
                \E t \in cameraTimeouts' :
                   t.id = iv.id /\ t.deadline = now + CAMERA_EASE_MS]_vars

\* the interval of a later run of the section effect has eased the camera
\* after the interval of the run before it was stopped by the change
C25_Witness ==
    /\ pLast = "cameraTick" /\ effectRuns > 1 /\ now > 0
    /\ \E iv \in cameraIntervals : iv.id = effectRuns /\ iv.last = now
    /\ Cardinality(cameraIntervals) = 1
    /\ camera # CameraTarget(props.section, props.experience)

\* C28: a fall callback that fires when the current section is no longer 0
\* changes neither TARGET nor CURRENT nor the camera (nor what is rendered).
C28_StaleFallIsNoop ==
    [][(currentSectionRef # 0 /\ \E t \in fallTimers : t \notin fallTimers') =>
          /\ targetPositions' = targetPositions
          /\ currentPositions' = currentPositions
          /\ positions' = positions
          /\ camera' = camera]_vars

\* the callback of a fall has fired after the terrain was re-entered
C28_Witness ==
    /\ pLast = "fallSkipped" /\ currentSectionRef = 1 /\ fallTimers = {}
    /\ targetPositions = mountains /\ targetPositions # textPositions

\* ---------------------------------------------------------------------------
\* Properties of the host page
\* ---------------------------------------------------------------------------

WheelSteps == {"wheelApplied", "wheelDropped", "wheelOutOfBounds"}

SectionChangers == {"wheelApplied", "touchApplied", "goToExperience", "return",
                    "goToSection"}

C13_GesturesSpaced ==
    [][(hLast' \in {"wheelApplied", "touchApplied"} /\ lastGesture # Null
           /\ DateNow > lastGesture /\ hSectionRef' # hSectionRef)
         => DateNow - lastGesture >= TRANSITION_MS]_vars

TouchSteps == {"touchLocked", "touchShort", "touchOutOfBounds", "touchApplied"}

\* C29 as stated: a touch swipe that ends less than 1000 ms after the latest
\* applied touch request is ignored: it changes neither the section nor the
\* lock nor the timers of the page.
C29_TouchLockHolds ==
    [][(hLast' \in TouchSteps /\ lastTouch # Null /\ DateNow > lastTouch
           /\ DateNow - lastTouch < TOUCH_UNLOCK_MS) =>
         /\ hLast' # "touchApplied"
         /\ UNCHANGED <<hSectionRef, hCurrentSection, hTransitioning, isScrolling,
                        hTimers>>]_vars

\* ---------------------------------------------------------------------------
\* Properties of generateAllSocialLogos
\* ---------------------------------------------------------------------------

\* The block the claim assigns to particle i: [k * floor(N/5), (k+1) * floor(N/5))
\* for k = 0..3, and [4 * floor(N/5), N) for the last logo
ClaimedBlock(i, n) == IF i >= 4 * (n \div 5) THEN 4 ELSE i \div (n \div 5)

\* C17: for every particle count N the five blocks write every index 0..N-1
\* exactly once, each from the block the claim names, the last block holds
\* N - 4 * floor(N/5) particles, and every source index read lies in 0..N-1.
C17_BlocksPartition ==
    /\ logoSrcOk
    /\ \A i \in 0..(logoN - 1) :
          /\ logoWrites[i] <= 1
          /\ logoWrites[i] = 1 => logoBlock[i] = ClaimedBlock(i, logoN)
    /\ logoIdx = 5 =>
          /\ \A i \in 0..(logoN - 1) : logoWrites[i] = 1
          /\ Cardinality({i \in 0..(logoN - 1) : logoBlock[i] = 4})
                = logoN - 4 * (logoN \div 5)

\* the generator has finished for N = 7: the last block absorbed 3 particles
C17_Witness ==
    /\ logoIdx = 5 /\ logoN = 7
    /\ \A i \in 0..6 : logoWrites[i] = 1
    /\ Cardinality({i \in 0..6 : logoBlock[i] = 4}) = 3

\* C18: onComplete has not been invoked, whatever steps the overlay has taken.
C18_OnCompleteNeverCalled == onCompleteCalls = 0

\* two scenes were built (a reactivation) and the overlay was unmounted
C18_Witness ==
    /\ ~bMounted /\ bLast = "unmount" /\ st.gen = 2 /\ st.disposed
    /\ onCompleteCalls = 0

\* ---------------------------------------------------------------------------
\* Properties of ExperiencePage
\* ---------------------------------------------------------------------------
ClickSteps == {"goToPrev", "goToNext", "ignored"}

\* C30: the rendered index is always one of 0..4 and equal to currentIdx;
\* a click on an arrow during a transition changes nothing; an accepted
\* click changes no index at once, and the index becomes the index it was
\* made on minus or plus one modulo 5 when its slide-out timer fires, 400 ms
\* later, with the transition flag still set; the flag is cleared only by
\* the slide-in timer, 500 ms after that.
C30_OneStepPerRequest ==
    /\ [](displayIdx \in 0..(EntryCount - 1) /\ displayIdx = currentIdx)
    /\ [][(eLast' \in ClickSteps /\ isTransitioning) =>
            /\ eLast' = "ignored"
            /\ UNCHANGED <<currentIdx, displayIdx, fadeIn, slideDirection,
                           isTransitioning, transitionTimeout, eTimers, eReq>>]_vars
    /\ [][(eLast' \in ClickSteps /\ ~isTransitioning) =>
            /\ eLast' # "ignored" /\ isTransitioning'
            /\ UNCHANGED <<currentIdx, displayIdx>>
            /\ eReq'.idx = currentIdx /\ eReq'.at = now
            /\ eReq'.step = (IF eLast' = "goToNext" THEN 1 ELSE EntryCount - 1)]_vars
    /\ [][currentIdx' # currentIdx => eLast' \in {"slideOut", "params"}]_vars
    /\ [][eLast' = "slideOut" =>
            /\ currentIdx' = (eReq.idx + eReq.step) % EntryCount
            /\ now = eReq.at + SLIDE_OUT_MS
            /\ isTransitioning /\ isTransitioning']_vars
    /\ [][(isTransitioning /\ ~isTransitioning') =>
            /\ eLast' = "slideIn"
            /\ eReq.swapAt # Null /\ now = eReq.swapAt + SLIDE_IN_MS]_vars

\* two accepted requests, the first forward from entry 4, the second back
\* from entry 0, a click in between ignored; the second has just finished
C30_Witness ==
    /\ eLast = "slideIn" /\ ~isTransitioning /\ eMounted
    /\ eReq.idx = 0 /\ eReq.step = EntryCount - 1 /\ currentIdx = 4
    /\ eReq.at >= SLIDE_OUT_MS + SLIDE_IN_MS
    /\ now = eReq.at + SLIDE_OUT_MS + SLIDE_IN_MS

TypeOKBullet ==
    /\ bMounted \in BOOLEAN /\ active \in BOOLEAN
    /\ delayRef \in {Null} \cup 0..(MaxNow + START_DELAY)
    /\ sceneRef \in {"null", "scene"}
    /\ bLast \in {"init", "tick", "activate", "reactivate", "deactivate", "cancelDelay",
                  "flyOutFromFrozen", "flyOutFromShootIn", "build", "timerNoop",
                  "stale", "flyOut", "cleanup", "frozen", "freeze", "shootIn",
                  "resize", "resizeNoop", "unmount"}

====
